---- MODULE Spec2Model ----
(***************************************************************************)
(* A model of the launch-visibility scoring engine of falconwatch          *)
(* (src/src/lib/visibility.ts), of the site registry it reads              *)
(* (launchSites, found at the end of src/src/app/privacy/page.tsx), and of *)
(* the server around it: the rate limiter, the visibility and unsubscribe  *)
(* routes, the subscription table and the alert cron.                      *)
(*                                                                         *)
(* Numbers.  The engine computes with JavaScript doubles.  The model       *)
(* computes with exact rationals <<n, d>> (d > 0, lowest terms), so a      *)
(* score such as 1 - 150/550 is the fraction 8/11 and Math.round is        *)
(* floor(x + 1/2).  Inputs are whole numbers in the unit the code reads    *)
(* them in (percent, metres, km, degrees).                                 *)
(*                                                                         *)
(* Geometry.  calculateDistanceKm, calculateBearing and                    *)
(* calculateSolarElevation are trigonometric; the model draws their        *)
(* results (km, degrees) from bounded sets instead of computing them from  *)
(* coordinates.  The one case the model computes is the viewer standing on *)
(* the pad (the default viewer): the haversine of a point with itself is 0 *)
(* and atan2(0, 0) is 0.                                                   *)
(*                                                                         *)
(* Mission names.  Every test the engine makes on a mission name is        *)
(* nameLower.includes(keyword); a name is modelled by the set of the       *)
(* engine's keywords that occur in its lower-cased text.                   *)
(***************************************************************************)
EXTENDS Integers, Sequences, FiniteSets, TLC

VARIABLES
    args,                 \* the arguments of the call or request in progress
    result,               \* what it returned
    windows,              \* rateLimit.ts: Map of key -> timestamps of allowed requests
    now,                  \* Date.now(), in milliseconds
    allowedAt,            \* per key, the time of every request answered "allowed"
    email_subscriptions,  \* the table of that name
    outbox                \* the emails handed to Resend and accepted by it

vars == <<args, result, windows, now, allowedAt, email_subscriptions, outbox>>

\* the state of the server behind the scoring engine
server == <<windows, now, allowedAt, email_subscriptions, outbox>>

(***************************************************************************)
(* null / undefined, and a value that is present                           *)
(***************************************************************************)
None == <<>>

Some(v) == <<v>>

IsNone(o) == o = <<>>

ValueOf(o) == o[1]

\* JavaScript's  o ?? dflt
OrElse(o, dflt) == IF o = <<>> THEN dflt ELSE o[1]

(***************************************************************************)
(* Exact rational arithmetic                                               *)
(***************************************************************************)
Abs(n) == IF n < 0 THEN -n ELSE n

RECURSIVE GCD(_, _)
GCD(a, b) == IF b = 0 THEN a ELSE GCD(b, a % b)

Rat(n, d) ==
    LET g == GCD(Abs(n), d)
    IN  IF g = 0 THEN <<0, 1>> ELSE <<n \div g, d \div g>>

FromInt(k) == <<k, 1>>

RAdd(a, b) ==
    LET g == GCD(a[2], b[2])
        l == (a[2] \div g) * b[2]
    IN  Rat(a[1] * (l \div a[2]) + b[1] * (l \div b[2]), l)

RNeg(a) == <<-a[1], a[2]>>

RSub(a, b) == RAdd(a, RNeg(b))

RMul(a, b) ==
    LET x == Rat(a[1], b[2])
        y == Rat(b[1], a[2])
    IN  <<x[1] * y[1], x[2] * y[2]>>

RLess(a, b) ==
    LET g == GCD(a[2], b[2])
    IN  a[1] * (b[2] \div g) < b[1] * (a[2] \div g)

RLeq(a, b) == ~RLess(b, a)

RMin(a, b) == IF RLess(b, a) THEN b ELSE a

RMax(a, b) == IF RLess(a, b) THEN b ELSE a

\* Math.round: the nearest integer, halves rounded up
Round(a) == (2 * a[1] + a[2]) \div (2 * a[2])

Zero == FromInt(0)

One == FromInt(1)

Half == Rat(1, 2)

InUnitInterval(a) == RLeq(Zero, a) /\ RLeq(a, One)

\* Math.round(km * 0.621371)
RoundMiles(kmRat) == Round(RMul(kmRat, Rat(621371, 1000000)))

(***************************************************************************)
(* Constants and configuration                                             *)
(***************************************************************************)
VISIBILITY_CONFIG ==
    [maxVisibleDistance |->
        [twilight |-> [falcon9 |-> 1000, falconHeavy |-> 1200, starship |-> 1500,
                       smallRocket |-> 350, default |-> 1000],
         night    |-> [falcon9 |-> 550, falconHeavy |-> 650, starship |-> 900,
                       smallRocket |-> 200, default |-> 550],
         day      |-> [falcon9 |-> 200, falconHeavy |-> 250, starship |-> 300,
                       smallRocket |-> 80, default |-> 200]],
     optimalMin |-> 130,
     optimalMax |-> 800]

PLUME_VISIBILITY_ALTITUDE_KM == 40

\* milliseconds
VISIBILITY_TIMING ==
    [falcon9     |-> [timeToAltitude |-> 60000, firstStageDuration |-> 150000,
                      secondStageDuration |-> 240000, totalDuration |-> 360000],
     falconHeavy |-> [timeToAltitude |-> 60000, firstStageDuration |-> 150000,
                      secondStageDuration |-> 300000, totalDuration |-> 420000],
     starship    |-> [timeToAltitude |-> 60000, firstStageDuration |-> 165000,
                      secondStageDuration |-> 360000, totalDuration |-> 480000],
     smallRocket |-> [timeToAltitude |-> 120000, firstStageDuration |-> 120000,
                      secondStageDuration |-> 180000, totalDuration |-> 240000],
     default     |-> [timeToAltitude |-> 60000, firstStageDuration |-> 150000,
                      secondStageDuration |-> 240000, totalDuration |-> 360000]]

\* a variant that gives the cloud factor less weight
WEIGHTS_Skewed ==
    [cloud       |-> Rat(30, 100),
     sun         |-> Rat(25, 100),
     distance    |-> Rat(15, 100),
     clarity     |-> Rat(10, 100),
     plume       |-> Rat(5, 100),
     bearing     |-> Rat(4, 100),
     brightness  |-> Rat(4, 100),
     obstruction |-> Rat(2, 100)]

WEIGHTS ==
    [cloud       |-> Rat(35, 100),
     sun         |-> Rat(25, 100),
     distance    |-> Rat(15, 100),
     clarity     |-> Rat(10, 100),
     plume       |-> Rat(5, 100),
     bearing     |-> Rat(4, 100),
     brightness  |-> Rat(4, 100),
     obstruction |-> Rat(2, 100)]

\* a variant whose base confidence band is already the widened one
TUNING_WideBand ==
    [weights |-> WEIGHTS,
     maxVisibleDistance |-> VISIBILITY_CONFIG.maxVisibleDistance,
     plumeAltitudeKm |-> PLUME_VISIBILITY_ALTITUDE_KM,
     confidenceBand |-> 15]

TUNING ==
    [weights |-> WEIGHTS,
     maxVisibleDistance |-> VISIBILITY_CONFIG.maxVisibleDistance,
     plumeAltitudeKm |-> PLUME_VISIBILITY_ALTITUDE_KM,
     confidenceBand |-> 10]

(***************************************************************************)
(* The site registry.  Coordinates enter the engine only through the       *)
(* geometry, which the model takes as input, so they are left out.         *)
(***************************************************************************)
vandenberg ==
    [id |-> "vandenberg", name |-> "Vandenberg SFB", elevation |-> 112,
     timezone |-> "America/Los_Angeles",
     defaultAzimuth |-> 190,
     missionAzimuths |-> [polar |-> 180, sso |-> 190, retrograde |-> 190,
                          starlink |-> 190, nrol |-> 190],
     visibilityModifiers |-> [humidityPenalty |-> Rat(5, 100),
                              typicalCloudCover |-> Rat(25, 100),
                              coastalFogFactor |-> Rat(15, 100),
                              lightPollutionBase |-> Rat(5, 100)],
     directionHint |-> "south-southwest"]

capeCanaveral ==
    [id |-> "cape-canaveral", name |-> "Cape Canaveral SFS", elevation |-> 3,
     timezone |-> "America/New_York",
     defaultAzimuth |-> 43,
     missionAzimuths |-> [iss |-> 45, crew |-> 45, starlink |-> 43,
                          starlink_v2 |-> 56, gto |-> 90, geo |-> 90,
                          polar |-> 180],
     visibilityModifiers |-> [humidityPenalty |-> Rat(20, 100),
                              typicalCloudCover |-> Rat(40, 100),
                              coastalFogFactor |-> Rat(5, 100),
                              lightPollutionBase |-> Rat(10, 100)],
     directionHint |-> "east-northeast"]

bocaChica ==
    [id |-> "boca-chica", name |-> "Starbase", elevation |-> 2,
     timezone |-> "America/Chicago",
     defaultAzimuth |-> 97,
     missionAzimuths |-> [orbital |-> 97, starship |-> 97],
     visibilityModifiers |-> [humidityPenalty |-> Rat(15, 100),
                              typicalCloudCover |-> Rat(35, 100),
                              coastalFogFactor |-> Rat(8, 100),
                              lightPollutionBase |-> Rat(5, 100)],
     directionHint |-> "east-southeast"]

LAUNCH_SITES ==
    [x \in {"vandenberg", "cape-canaveral", "boca-chica"} |->
        CASE x = "vandenberg"     -> vandenberg
          [] x = "cape-canaveral" -> capeCanaveral
          [] x = "boca-chica"     -> bocaChica]

\* LAUNCH_SITES[id]: the record, or undefined (None) for an id that is no key
getLaunchSite(id) ==
    IF id \in DOMAIN LAUNCH_SITES THEN Some(LAUNCH_SITES[id]) ELSE None

(***************************************************************************)
(* Solar position bands                                                    *)
(***************************************************************************)
getTwilightType(solarElevation) ==
    IF solarElevation > 0 THEN "day"
    ELSE IF solarElevation > -6 THEN "civil"
    ELSE IF solarElevation > -12 THEN "nautical"
    ELSE IF solarElevation > -18 THEN "astronomical"
    ELSE "night"

(***************************************************************************)
(* Sub-score calculators                                                   *)
(***************************************************************************)
\* a variant that compares a null cloud base as JavaScript coerces it (null < n)
calculateCloudScoreNullBaseFatal(cloudFraction, cloudBase) ==
    LET plumeAltitude == PLUME_VISIBILITY_ALTITUDE_KM * 1000
        cloudFrac == Rat(cloudFraction, 100)
        base == OrElse(cloudBase, 0)
    IN  IF RLess(Rat(8, 10), cloudFrac) /\ base < plumeAltitude
        THEN [score |-> Zero, isFatal |-> TRUE,
              reason |-> Some("Heavy cloud cover is likely blocking the view")]
        ELSE IF cloudBase # None /\ ValueOf(cloudBase) < 3000
                /\ RLess(Rat(6, 10), cloudFrac)
        THEN [score |-> RMax(Zero, RMul(Rat(2, 10), RSub(One, cloudFrac))),
              isFatal |-> FALSE,
              reason |-> Some("Low clouds could block the view - look for gaps in the sky")]
        ELSE [score |-> RSub(One, cloudFrac),
              isFatal |-> FALSE,
              reason |-> IF RLess(Half, cloudFrac)
                         THEN Some("Partial cloud cover - look for clear patches")
                         ELSE None]

\* a variant whose low-deck adjustment scales the fraction, not its complement
calculateCloudScoreLowDeckInverted(cloudFraction, cloudBase) ==
    LET plumeAltitude == PLUME_VISIBILITY_ALTITUDE_KM * 1000
        cloudFrac == Rat(cloudFraction, 100)
    IN  IF RLess(Rat(8, 10), cloudFrac) /\ cloudBase # None
           /\ ValueOf(cloudBase) < plumeAltitude
        THEN [score |-> Zero, isFatal |-> TRUE,
              reason |-> Some("Heavy cloud cover is likely blocking the view")]
        ELSE IF cloudBase # None /\ ValueOf(cloudBase) < 3000
                /\ RLess(Rat(6, 10), cloudFrac)
        THEN [score |-> RMax(Zero, RMul(Rat(2, 10), cloudFrac)),
              isFatal |-> FALSE,
              reason |-> Some("Low clouds could block the view - look for gaps in the sky")]
        ELSE [score |-> RSub(One, cloudFrac),
              isFatal |-> FALSE,
              reason |-> IF RLess(Half, cloudFrac)
                         THEN Some("Partial cloud cover - look for clear patches")
                         ELSE None]

calculateCloudScore(cloudFraction, cloudBase) ==
    LET plumeAltitude == PLUME_VISIBILITY_ALTITUDE_KM * 1000
        cloudFrac == Rat(cloudFraction, 100)
    IN  IF RLess(Rat(8, 10), cloudFrac) /\ cloudBase # None
           /\ ValueOf(cloudBase) < plumeAltitude
        THEN [score |-> Zero, isFatal |-> TRUE,
              reason |-> Some("Heavy cloud cover is likely blocking the view")]
        ELSE IF cloudBase # None /\ ValueOf(cloudBase) < 3000
                /\ RLess(Rat(6, 10), cloudFrac)
        THEN [score |-> RMax(Zero, RMul(Rat(2, 10), RSub(One, cloudFrac))),
              isFatal |-> FALSE,
              reason |-> Some("Low clouds could block the view - look for gaps in the sky")]
        ELSE [score |-> RSub(One, cloudFrac),
              isFatal |-> FALSE,
              reason |-> IF RLess(Half, cloudFrac)
                         THEN Some("Partial cloud cover - look for clear patches")
                         ELSE None]

\* a variant whose nautical band leaves out its upper edge (< -6 for <= -6)
calculateSunScoreOpenEdge(solarElevation) ==
    IF solarElevation < -6 /\ solarElevation >= -12 THEN One
    ELSE IF solarElevation <= -3 /\ solarElevation >= -6 THEN Rat(95, 100)
    ELSE IF solarElevation <= 0 /\ solarElevation > -3 THEN Rat(85, 100)
    ELSE IF solarElevation <= -12 /\ solarElevation >= -18 THEN Rat(85, 100)
    ELSE IF solarElevation < -18 THEN Rat(65, 100)
    ELSE IF solarElevation > 0 /\ solarElevation <= 10 THEN Rat(30, 100)
    ELSE IF solarElevation > 10 /\ solarElevation <= 40 THEN Rat(15, 100)
    ELSE Rat(5, 100)

\* a variant that puts the peak on civil twilight and 0.95 on nautical
calculateSunScoreCivilPeak(solarElevation) ==
    IF solarElevation <= -6 /\ solarElevation >= -12 THEN Rat(95, 100)
    ELSE IF solarElevation <= -3 /\ solarElevation > -6 THEN One
    ELSE IF solarElevation <= 0 /\ solarElevation > -3 THEN Rat(85, 100)
    ELSE IF solarElevation <= -12 /\ solarElevation >= -18 THEN Rat(85, 100)
    ELSE IF solarElevation < -18 THEN Rat(65, 100)
    ELSE IF solarElevation > 0 /\ solarElevation <= 10 THEN Rat(30, 100)
    ELSE IF solarElevation > 10 /\ solarElevation <= 40 THEN Rat(15, 100)
    ELSE Rat(5, 100)

calculateSunScore(solarElevation) ==
    IF solarElevation <= -6 /\ solarElevation >= -12 THEN One
    ELSE IF solarElevation <= -3 /\ solarElevation > -6 THEN Rat(95, 100)
    ELSE IF solarElevation <= 0 /\ solarElevation > -3 THEN Rat(85, 100)
    ELSE IF solarElevation <= -12 /\ solarElevation >= -18 THEN Rat(85, 100)
    ELSE IF solarElevation < -18 THEN Rat(65, 100)
    ELSE IF solarElevation > 0 /\ solarElevation <= 10 THEN Rat(30, 100)
    ELSE IF solarElevation > 10 /\ solarElevation <= 40 THEN Rat(15, 100)
    ELSE Rat(5, 100)

\* a variant that computes what the doc comment says: Clamp(1 - distance/max, 0, 1)
calculateDistanceScoreAsDocumented(distanceKm, maxVisibleDistance) ==
    RMax(Zero, RMin(One, RSub(One, Rat(distanceKm, maxVisibleDistance))))

\* a variant without the early return for a distance beyond the maximum
calculateDistanceScoreUnguarded(distanceKm, maxVisibleDistance) ==
    IF distanceKm <= 0 THEN Zero
    ELSE LET baseScore == RSub(One, Rat(distanceKm, maxVisibleDistance))
         IN  IF distanceKm >= VISIBILITY_CONFIG.optimalMin
                /\ distanceKm <= VISIBILITY_CONFIG.optimalMax
             THEN RMin(One, RMul(baseScore, Rat(11, 10)))
             ELSE RMax(Zero, baseScore)

calculateDistanceScore(distanceKm, maxVisibleDistance) ==
    IF distanceKm <= 0 THEN Zero
    ELSE IF distanceKm > maxVisibleDistance THEN Zero
    ELSE LET baseScore == RSub(One, Rat(distanceKm, maxVisibleDistance))
         IN  IF distanceKm >= VISIBILITY_CONFIG.optimalMin
                /\ distanceKm <= VISIBILITY_CONFIG.optimalMax
             THEN RMin(One, RMul(baseScore, Rat(11, 10)))
             ELSE RMax(Zero, baseScore)

\* a variant that does not fold the angle onto 0..45 before scaling it
calculateBearingScoreNoFold(bearingToLaunchSite, launchAzimuth) ==
    LET viewDirection == (bearingToLaunchSite + 180) % 360
        absDiff == Abs(viewDirection - launchAzimuth)
        angleDiff == IF absDiff > 180 THEN 360 - absDiff ELSE absDiff
    IN  IF angleDiff >= 45 /\ angleDiff <= 135 THEN One
        ELSE RAdd(Rat(6, 10), RMul(Rat(4, 10), Rat(angleDiff, 45)))

calculateBearingScore(bearingToLaunchSite, launchAzimuth) ==
    LET viewDirection == (bearingToLaunchSite + 180) % 360
        trajectoryDirection == launchAzimuth
        absDiff == Abs(viewDirection - trajectoryDirection)
        angleDiff == IF absDiff > 180 THEN 360 - absDiff ELSE absDiff
    IN  IF angleDiff >= 45 /\ angleDiff <= 135 THEN One
        ELSE IF angleDiff < 45 \/ angleDiff > 135
        THEN LET normalizedDiff == IF angleDiff < 180 - angleDiff
                                   THEN angleDiff ELSE 180 - angleDiff
             IN  RAdd(Rat(6, 10), RMul(Rat(4, 10), Rat(normalizedDiff, 45)))
        ELSE Rat(6, 10)

calculateClarityScore(visibilityKm, aqi, humidityPenalty) ==
    LET base == IF RLeq(FromInt(40), visibilityKm) THEN One
                ELSE IF RLeq(visibilityKm, FromInt(5)) THEN Zero
                ELSE RMul(RSub(visibilityKm, FromInt(5)), Rat(1, 35))
        afterAqi ==
            IF aqi = None THEN base
            ELSE IF ValueOf(aqi) <= 50 THEN base
            ELSE IF ValueOf(aqi) <= 100 THEN RMul(base, Rat(9, 10))
            ELSE IF ValueOf(aqi) <= 150 THEN RMul(base, Rat(7, 10))
            ELSE IF ValueOf(aqi) <= 200 THEN RMul(base, Rat(4, 10))
            ELSE RMul(base, Rat(2, 10))
        visScore ==
            IF RLess(Zero, humidityPenalty)
            THEN RMul(afterAqi, RSub(One, humidityPenalty))
            ELSE afterAqi
    IN  RMax(Zero, RMin(One, visScore))

calculatePlumeScore(upperHumidity, upperWindSpeed) ==
    IF upperHumidity = None /\ upperWindSpeed = None THEN Rat(6, 10)
    ELSE LET humidityFactor ==
                 IF upperHumidity = None THEN Rat(5, 10)
                 ELSE IF ValueOf(upperHumidity) >= 60 THEN Rat(9, 10)
                 ELSE IF ValueOf(upperHumidity) >= 40 THEN Rat(7, 10)
                 ELSE IF ValueOf(upperHumidity) >= 20 THEN Rat(5, 10)
                 ELSE Rat(3, 10)
             windFactor ==
                 IF upperWindSpeed = None THEN Rat(5, 10)
                 ELSE IF ValueOf(upperWindSpeed) <= 10 THEN Rat(9, 10)
                 ELSE IF ValueOf(upperWindSpeed) <= 25 THEN One
                 ELSE IF ValueOf(upperWindSpeed) <= 50 THEN Rat(7, 10)
                 ELSE Rat(4, 10)
         IN  RMul(RAdd(humidityFactor, windFactor), Half)

\* nameLower.includes(keyword), the name being the set of keywords it contains
Includes(nameLower, keyword) == keyword \in nameLower

HasAzimuth(site, key) == key \in DOMAIN site.missionAzimuths

detectLaunchAzimuth(missionName, site) ==
    LET n == missionName
        az == site.missionAzimuths
    IN  IF Includes(n, "starlink") /\ HasAzimuth(site, "starlink") THEN az.starlink
        ELSE IF (Includes(n, "nrol") \/ Includes(n, "usa-")) /\ HasAzimuth(site, "nrol")
        THEN az.nrol
        ELSE IF Includes(n, "transporter") /\ HasAzimuth(site, "sso") THEN az.sso
        ELSE IF (Includes(n, "sda ") \/ Includes(n, "tranche")) /\ HasAzimuth(site, "sso")
        THEN az.sso
        ELSE IF (Includes(n, "crew") \/ Includes(n, "dragon")) /\ HasAzimuth(site, "crew")
        THEN az.crew
        ELSE IF Includes(n, "iss") /\ HasAzimuth(site, "iss") THEN az.iss
        ELSE IF (Includes(n, "worldview") \/ Includes(n, "planet")
                 \/ Includes(n, "iceye") \/ Includes(n, "capella"))
                /\ HasAzimuth(site, "sso")
        THEN az.sso
        ELSE IF Includes(n, "iridium") /\ HasAzimuth(site, "polar") THEN az.polar
        ELSE IF Includes(n, "starship") /\ HasAzimuth(site, "starship") THEN az.starship
        ELSE site.defaultAzimuth

calculateBrightnessScore(missionName) ==
    LET n == missionName
        typed ==
            IF Includes(n, "falcon heavy") \/ Includes(n, "fh")
            THEN [rocketType |-> "falconHeavy", score |-> Rat(95, 100)]
            ELSE IF Includes(n, "starship")
            THEN [rocketType |-> "starship", score |-> One]
            ELSE IF Includes(n, "electron") \/ Includes(n, "rocket lab")
            THEN [rocketType |-> "smallRocket", score |-> Rat(4, 10)]
            ELSE [rocketType |-> "falcon9", score |-> Rat(85, 100)]
        afterStarlink == IF Includes(n, "starlink") THEN Rat(8, 10) ELSE typed.score
        afterCrew ==
            IF Includes(n, "crew") \/ Includes(n, "dragon")
            THEN RMin(One, RAdd(afterStarlink, Rat(1, 10)))
            ELSE afterStarlink
    IN  [score |-> afterCrew, rocketType |-> typed.rocketType]

\* isUrban and userElevation are optional: undefined takes the default
calculateObstructionScore(isUrban, userElevation, lightPollutionBase) ==
    LET urban == OrElse(isUrban, FALSE)
        elevation == OrElse(userElevation, 0)
        s1 == IF urban THEN RSub(One, Rat(2, 10)) ELSE One
        s2 == RSub(s1, lightPollutionBase)
        s3 == IF elevation > 1000 THEN RMin(One, RAdd(s2, Rat(1, 10)))
              ELSE IF elevation < 100 THEN RSub(s2, Rat(5, 100))
              ELSE s2
    IN  RMax(Zero, RMin(One, s3))

(***************************************************************************)
(* Time formatting and the visibility window.  A Date is its epoch         *)
(* milliseconds.  toLocaleTimeString with hour and minute keeps the minute *)
(* the instant falls in and the zone it is shown in.                       *)
(***************************************************************************)
formatTime(date, timezone) == [minute |-> date \div 60000, timeZone |-> timezone]

TimingOf(rocketType) ==
    IF rocketType \in DOMAIN VISIBILITY_TIMING
    THEN VISIBILITY_TIMING[rocketType]
    ELSE VISIBILITY_TIMING.default

\* a variant that empties the window at the fatal-blocker threshold (0.1)
calculateVisibilityWindowBlockerThreshold(launchTimeUnix, solarElevation, sunScore, rocketType, timezone) ==
    LET launchDate == launchTimeUnix * 1000
        timing == TimingOf(rocketType)
        visibilityStart == launchDate + timing.timeToAltitude
        visibilityEnd == visibilityStart + timing.totalDuration
        twilightType == getTwilightType(solarElevation)
        startFormatted == formatTime(visibilityStart, timezone)
        endFormatted == formatTime(visibilityEnd, timezone)
        description ==
            IF twilightType = "civil" \/ twilightType = "nautical"
            THEN <<"Best viewing", startFormatted, endFormatted>>
            ELSE IF twilightType = "night" \/ twilightType = "astronomical"
            THEN <<"Visible", startFormatted, endFormatted>>
            ELSE <<"Estimated visible", startFormatted, endFormatted>>
    IN  IF RLess(sunScore, Rat(1, 10))
        THEN [start |-> None, end |-> None,
              startFormatted |-> None, endFormatted |-> None,
              duration |-> 0,
              description |-> <<"Daytime launch - the bright sky makes the exhaust plume very hard to see">>]
        ELSE [start |-> Some(visibilityStart), end |-> Some(visibilityEnd),
              startFormatted |-> Some(startFormatted),
              endFormatted |-> Some(endFormatted),
              duration |-> Round(Rat(timing.totalDuration, 60000)),
              description |-> description]

calculateVisibilityWindow(launchTimeUnix, solarElevation, sunScore, rocketType, timezone) ==
    LET launchDate == launchTimeUnix * 1000
        timing == TimingOf(rocketType)
        visibilityStart == launchDate + timing.timeToAltitude
        visibilityEnd == visibilityStart + timing.totalDuration
        twilightType == getTwilightType(solarElevation)
        startFormatted == formatTime(visibilityStart, timezone)
        endFormatted == formatTime(visibilityEnd, timezone)
        description ==
            IF twilightType = "civil" \/ twilightType = "nautical"
            THEN <<"Best viewing", startFormatted, endFormatted>>
            ELSE IF twilightType = "night" \/ twilightType = "astronomical"
            THEN <<"Visible", startFormatted, endFormatted>>
            ELSE <<"Estimated visible", startFormatted, endFormatted>>
    IN  IF RLess(sunScore, Rat(2, 10))
        THEN [start |-> None, end |-> None,
              startFormatted |-> None, endFormatted |-> None,
              duration |-> 0,
              description |-> <<"Daytime launch - the bright sky makes the exhaust plume very hard to see">>]
        ELSE [start |-> Some(visibilityStart), end |-> Some(visibilityEnd),
              startFormatted |-> Some(startFormatted),
              endFormatted |-> Some(endFormatted),
              duration |-> Round(Rat(timing.totalDuration, 60000)),
              description |-> description]

(***************************************************************************)
(* Site-specific recommendation text                                       *)
(***************************************************************************)
getSiteDirectionText(site) ==
    IF site.id = "cape-canaveral" THEN "Look east-northeast over the Atlantic"
    ELSE IF site.id = "boca-chica" THEN "Look east over the Gulf of Mexico"
    ELSE "Look south along the coast"

getSiteSpecificTips(site, missionName) ==
    IF site.id = "cape-canaveral"
    THEN << <<"Florida's humidity can create haze">> >>
    ELSE IF site.id = "boca-chica"
    THEN (IF Includes(missionName, "starship")
          THEN << <<"Starship's 33 engines produce the largest plume">> >>
          ELSE << >>)
         \o << <<"Gulf moisture can create haze">> >>
    ELSE IF site.id = "vandenberg"
    THEN << <<"Coastal fog is common at Vandenberg">> >>
         \o (IF Includes(missionName, "starlink")
             THEN << <<"Vandenberg Starlink launches head south">> >>
             ELSE << >>)
    ELSE << >>

getScoreExplanation(distanceKm, lightingCondition, rocketType) ==
    LET distMi == RoundMiles(FromInt(distanceKm))
    IN  IF lightingCondition = "twilight"
        THEN IF rocketType = "starship"
             THEN <<"This score is based on twilight timing - scaled for Starship">>
             ELSE IF distMi > 400
             THEN <<"This score factors in timing - twilight confirmed from 500+ miles">>
             ELSE <<"This score factors in timing - confirmed sighting reports">>
        ELSE IF lightingCondition = "night"
        THEN <<"This score factors in timing - night launches, range is shorter">>
        ELSE <<"This score factors in timing - daytime range from community reports">>

(***************************************************************************)
(* The main calculation.  a is the argument record:                        *)
(*   launchTimeUnix, missionName, weatherLaunchSite, weatherViewing,       *)
(*   viewingLocation, siteId   - the six parameters, optional ones as      *)
(*                               None / Some(v);                           *)
(*   solarElevation            - what calculateSolarElevation returns for  *)
(*                               the viewer's coordinates at launch time;  *)
(*   viewingLocation.distanceKm, .bearingDeg - what calculateDistanceKm    *)
(*                               and calculateBearing return for the       *)
(*                               viewer's lat/lon.                         *)
(***************************************************************************)
SiteIdOrDefault(siteId) ==
    IF siteId = None \/ ValueOf(siteId) = "" THEN "vandenberg" ELSE ValueOf(siteId)

ResolveViewer(viewingLocation, site) ==
    IF viewingLocation # None THEN ValueOf(viewingLocation)
    ELSE [name |-> site.name, distanceKm |-> 0, bearingDeg |-> 0,
          elevation |-> Some(site.elevation), isUrban |-> Some(FALSE)]

LightingCondition(solarElevation) ==
    IF solarElevation <= 0 /\ solarElevation >= -18 THEN "twilight"
    ELSE IF solarElevation < -18 THEN "night"
    ELSE "day"

\* a variant whose rocket key never matches, so every rocket gets the default
MaxVisibleDistanceAlwaysDefault(lightingCondition, rocketType) ==
    VISIBILITY_CONFIG.maxVisibleDistance[lightingCondition].default

MaxVisibleDistance(lightingCondition, rocketType) ==
    LET distanceTable == VISIBILITY_CONFIG.maxVisibleDistance[lightingCondition]
    IN  IF rocketType \in DOMAIN distanceTable /\ distanceTable[rocketType] # 0
        THEN distanceTable[rocketType]
        ELSE distanceTable.default

(***************************************************************************)
(* visibilityRadius.ts: the helpers the map uses to draw the radius        *)
(***************************************************************************)
\* a variant that takes the horizon itself (0 degrees) for daylight
getLightingConditionHorizonIsDay(solarElevation) ==
    IF solarElevation < 0 /\ solarElevation >= -18 THEN "twilight"
    ELSE IF solarElevation < -18 THEN "night"
    ELSE "day"

getLightingCondition(solarElevation) ==
    IF solarElevation <= 0 /\ solarElevation >= -18 THEN "twilight"
    ELSE IF solarElevation < -18 THEN "night"
    ELSE "day"

detectRocketType(missionName) ==
    LET n == missionName
    IN  IF Includes(n, "falcon heavy") \/ Includes(n, "fh") THEN "falconHeavy"
        ELSE IF Includes(n, "starship") THEN "starship"
        ELSE IF Includes(n, "electron") \/ Includes(n, "rocket lab") THEN "smallRocket"
        ELSE "falcon9"

\* table[rocketType] ?? table.default
getMaxVisibleRadiusKm(solarElevation, rocketType) ==
    LET condition == getLightingCondition(solarElevation)
        table == VISIBILITY_CONFIG.maxVisibleDistance[condition]
    IN  IF rocketType \in DOMAIN table THEN table[rocketType] ELSE table.default

\* weatherViewing?.field ?? dflt
WeatherField(weather, field, dflt) ==
    IF weather = None THEN dflt ELSE OrElse(ValueOf(weather)[field], dflt)

WeatherOption(weather, field) ==
    IF weather = None THEN None ELSE ValueOf(weather)[field]

\* the fixed part of each fatal-blocker message
CloudBlockerText ==
    "Heavy cloud cover is likely blocking the view. Conditions can change quickly"

TwilightRangeText ==
    "beyond the range where twilight launches have been confirmed visible"

NightRangeText == "beyond the typical range for night launches"

DayRangeText == "daytime launches are very hard to see"

MiddayBlockerText == "Midday launches are very hard to see"

\* a variant that tests the distance before the cloud deck
FatalBlockerDistanceFirst(cloudResult, distanceScore, distanceKm, maxVisibleDistance, lightingCondition, sunScore) ==
    IF distanceScore = Zero /\ distanceKm > maxVisibleDistance
    THEN LET distMi == RoundMiles(FromInt(distanceKm))
             maxMi == RoundMiles(FromInt(maxVisibleDistance))
         IN  IF lightingCondition = "twilight"
             THEN Some(<<TwilightRangeText, distMi, maxMi>>)
             ELSE IF lightingCondition = "night"
             THEN Some(<<NightRangeText, distMi, maxMi>>)
             ELSE Some(<<DayRangeText, distMi, maxMi>>)
    ELSE IF cloudResult.isFatal THEN Some(<<CloudBlockerText>>)
    ELSE IF RLess(sunScore, Rat(1, 10)) THEN Some(<<MiddayBlockerText>>)
    ELSE None

FatalBlocker(cloudResult, distanceScore, distanceKm, maxVisibleDistance, lightingCondition, sunScore) ==
    IF cloudResult.isFatal
    THEN Some(<<CloudBlockerText>>)
    ELSE IF distanceScore = Zero /\ distanceKm > maxVisibleDistance
    THEN LET distMi == RoundMiles(FromInt(distanceKm))
             maxMi == RoundMiles(FromInt(maxVisibleDistance))
         IN  IF lightingCondition = "twilight"
             THEN Some(<<TwilightRangeText, distMi, maxMi>>)
             ELSE IF lightingCondition = "night"
             THEN Some(<<NightRangeText, distMi, maxMi>>)
             ELSE Some(<<DayRangeText, distMi, maxMi>>)
    ELSE IF RLess(sunScore, Rat(1, 10))
    THEN Some(<<MiddayBlockerText>>)
    ELSE None

\* a variant that takes the weighted sum whether or not a blocker is set
WeightedScoreAlways(subScores, fatalBlocker) ==
    RAdd(RAdd(RAdd(RAdd(RAdd(RAdd(RAdd(
        RMul(subScores.cloud, WEIGHTS.cloud),
        RMul(subScores.sun, WEIGHTS.sun)),
        RMul(subScores.distance, WEIGHTS.distance)),
        RMul(subScores.bearing, WEIGHTS.bearing)),
        RMul(subScores.clarity, WEIGHTS.clarity)),
        RMul(subScores.plume, WEIGHTS.plume)),
        RMul(subScores.brightness, WEIGHTS.brightness)),
        RMul(subScores.obstruction, WEIGHTS.obstruction))

\* a variant whose sum leaves the obstruction term out
WeightedScoreNoObstruction(subScores, fatalBlocker) ==
    IF fatalBlocker = None
    THEN RAdd(RAdd(RAdd(RAdd(RAdd(RAdd(
             RMul(subScores.cloud, WEIGHTS.cloud),
             RMul(subScores.sun, WEIGHTS.sun)),
             RMul(subScores.distance, WEIGHTS.distance)),
             RMul(subScores.bearing, WEIGHTS.bearing)),
             RMul(subScores.clarity, WEIGHTS.clarity)),
             RMul(subScores.plume, WEIGHTS.plume)),
             RMul(subScores.brightness, WEIGHTS.brightness))
    ELSE Zero

WeightedScore(subScores, fatalBlocker) ==
    IF fatalBlocker = None
    THEN RAdd(RAdd(RAdd(RAdd(RAdd(RAdd(RAdd(
             RMul(subScores.cloud, WEIGHTS.cloud),
             RMul(subScores.sun, WEIGHTS.sun)),
             RMul(subScores.distance, WEIGHTS.distance)),
             RMul(subScores.bearing, WEIGHTS.bearing)),
             RMul(subScores.clarity, WEIGHTS.clarity)),
             RMul(subScores.plume, WEIGHTS.plume)),
             RMul(subScores.brightness, WEIGHTS.brightness)),
             RMul(subScores.obstruction, WEIGHTS.obstruction))
    ELSE Zero

\* a variant with the threshold of the older calibration (excellent from 70)
RatingOldThresholds(percentage) ==
    IF percentage >= 70 THEN "excellent"
    ELSE IF percentage >= 50 THEN "good"
    ELSE IF percentage >= 30 THEN "fair"
    ELSE "poor"

Rating(percentage) ==
    IF percentage >= 75 THEN "excellent"
    ELSE IF percentage >= 50 THEN "good"
    ELSE IF percentage >= 30 THEN "fair"
    ELSE "poor"

\* a variant in which a fatal blocker is reported but not applied to the score
ScoreAndRatingIgnoringBlocker(subScores, fatalBlocker) ==
    LET percentage == Round(RMul(WeightedScore(subScores, None), FromInt(100)))
    IN  [computed |-> percentage, percentage |-> percentage,
         rating |-> Rating(percentage)]

\* The weighted score, the percentage computed from it, and what the return
\* statement makes of the percentage and the rating under a fatal blocker.
ScoreAndRating(subScores, fatalBlocker) ==
    LET weightedScore == WeightedScore(subScores, fatalBlocker)
        percentage == Round(RMul(weightedScore, FromInt(100)))
        rating == Rating(percentage)
    IN  [computed |-> percentage,
         percentage |-> IF fatalBlocker # None
                        THEN (IF percentage < 5 THEN percentage ELSE 5)
                        ELSE percentage,
         rating |-> IF fatalBlocker # None THEN "poor" ELSE rating]

\* scoredFactors, in the order the array literal lists them
ScoredFactorNames == <<"cloud", "sun", "distance", "clarity", "plume">>

\* .sort((a, b) => a.score * a.weight - b.score * b.weight): ascending and
\* stable, so equal products keep the order of the literal
SortedFactors(subScores) ==
    LET key == [i \in 1..5 |->
                   RMul(subScores[ScoredFactorNames[i]], WEIGHTS[ScoredFactorNames[i]])]
        before(j, i) == RLess(key[j], key[i]) \/ (key[j] = key[i] /\ j < i)
        pos == [i \in 1..5 |-> Cardinality({j \in 1..5 : before(j, i)})]
    IN  [p \in 1..5 |-> ScoredFactorNames[CHOOSE i \in 1..5 : pos[i] = p - 1]]

Severity(score) == IF RLess(score, Rat(3, 10)) THEN "major" ELSE "minor"

FactorDescription(name, cloudFraction, solarElevation, distanceKm, surfaceVisibilityKm) ==
    LET twilightType == getTwilightType(solarElevation)
    IN  CASE name = "cloud" -> <<"% cloud cover may block your view", cloudFraction>>
          [] name = "sun" ->
                IF twilightType = "day"
                THEN <<"Bright sky makes the exhaust plume hard to see">>
                ELSE <<"lighting reduces how far the plume is visible", twilightType>>
          [] name = "distance" ->
                <<"miles out - that's a long way for the plume to travel",
                  RoundMiles(FromInt(distanceKm))>>
          [] name = "clarity" ->
                <<"Air clarity is limited - haze reduces contrast",
                  RoundMiles(surfaceVisibilityKm)>>
          [] name = "plume" ->
                <<"Upper-level winds may break up the plume faster than usual">>

LimitingFactors(subScores, cloudResult, cloudFraction, solarElevation, distanceKm, surfaceVisibilityKm) ==
    LET sorted == SortedFactors(subScores)
        entry(name) ==
            [factor |-> name,
             description |-> FactorDescription(name, cloudFraction, solarElevation,
                                               distanceKm, surfaceVisibilityKm),
             severity |-> Severity(subScores[name])]
        low(name) == RLess(subScores[name], Half)
        worst == (IF low(sorted[1]) THEN <<entry(sorted[1])>> ELSE << >>)
                 \o (IF low(sorted[2]) THEN <<entry(sorted[2])>> ELSE << >>)
    IN  IF cloudResult.reason # None /\ ~cloudResult.isFatal
        THEN <<[factor |-> "cloud",
                description |-> <<"Low clouds could block the view - check the forecast closer to launch">>,
                severity |-> Severity(subScores.cloud)]>> \o worst
        ELSE worst

\* a variant that adds the trust sentence before the site-specific tips
RecommendationsTrustBeforeTips(site, missionName, subScores, solarElevation, lightingCondition, distanceKm, aqi, rocketType, fatalBlocker) ==
    LET distanceMiles == RoundMiles(FromInt(distanceKm))
        directionText == getSiteDirectionText(site)
        timing ==
            IF lightingCondition = "twilight"
            THEN IF solarElevation <= -6 /\ solarElevation >= -12
                 THEN << <<"Perfect timing - this launches during nautical twilight">> >>
                 ELSE << <<"Good timing - the sky should be dark enough">> >>
            ELSE IF lightingCondition = "night"
            THEN << <<"Night launch - you'll see the exhaust glow">> >>
            ELSE << <<"Daytime launches are tough to spot">> >>
        cloud ==
            IF RLess(subScores.cloud, Half)
            THEN << <<"Clouds could be an issue - check the forecast closer to launch">> >>
            ELSE << >>
        distance ==
            IF distanceMiles <= 150
            THEN << <<"you're close", distanceMiles, directionText>> >>
            ELSE IF distanceMiles <= 400
            THEN << <<"you're in a great spot for naked-eye viewing",
                      distanceMiles, directionText>> >>
            ELSE IF distanceMiles <= 600
            THEN << <<"you should be able to spot it", distanceMiles, directionText>> >>
            ELSE IF RLess(Zero, subScores.distance)
            THEN << <<"you're at the outer edge of range",
                      distanceMiles, site.directionHint>> >>
            ELSE << >>
        air ==
            IF RLess(subScores.clarity, Half) /\ aqi # None
               /\ ValueOf(aqi) # 0 /\ ValueOf(aqi) > 100
            THEN << <<"Air quality is limiting visibility">> >>
            ELSE << >>
        trust ==
            IF fatalBlocker = None
            THEN <<getScoreExplanation(distanceKm, lightingCondition, rocketType)>>
            ELSE << >>
        soFar == timing \o cloud \o distance \o air \o trust
                 \o getSiteSpecificTips(site, missionName)
        orFallback ==
            IF Len(soFar) = 0
            THEN << <<"Conditions look reasonable.", directionText>> >>
            ELSE soFar
    IN  orFallback

Recommendations(site, missionName, subScores, solarElevation, lightingCondition, distanceKm, aqi, rocketType, fatalBlocker) ==
    LET distanceMiles == RoundMiles(FromInt(distanceKm))
        directionText == getSiteDirectionText(site)
        timing ==
            IF lightingCondition = "twilight"
            THEN IF solarElevation <= -6 /\ solarElevation >= -12
                 THEN << <<"Perfect timing - this launches during nautical twilight">> >>
                 ELSE << <<"Good timing - the sky should be dark enough">> >>
            ELSE IF lightingCondition = "night"
            THEN << <<"Night launch - you'll see the exhaust glow">> >>
            ELSE << <<"Daytime launches are tough to spot">> >>
        cloud ==
            IF RLess(subScores.cloud, Half)
            THEN << <<"Clouds could be an issue - check the forecast closer to launch">> >>
            ELSE << >>
        distance ==
            IF distanceMiles <= 150
            THEN << <<"you're close", distanceMiles, directionText>> >>
            ELSE IF distanceMiles <= 400
            THEN << <<"you're in a great spot for naked-eye viewing",
                      distanceMiles, directionText>> >>
            ELSE IF distanceMiles <= 600
            THEN << <<"you should be able to spot it", distanceMiles, directionText>> >>
            ELSE IF RLess(Zero, subScores.distance)
            THEN << <<"you're at the outer edge of range",
                      distanceMiles, site.directionHint>> >>
            ELSE << >>
        air ==
            IF RLess(subScores.clarity, Half) /\ aqi # None
               /\ ValueOf(aqi) # 0 /\ ValueOf(aqi) > 100
            THEN << <<"Air quality is limiting visibility">> >>
            ELSE << >>
        soFar == timing \o cloud \o distance \o air
                 \o getSiteSpecificTips(site, missionName)
        orFallback ==
            IF Len(soFar) = 0
            THEN << <<"Conditions look reasonable.", directionText>> >>
            ELSE soFar
    IN  IF fatalBlocker = None
        THEN orFallback \o <<getScoreExplanation(distanceKm, lightingCondition, rocketType)>>
        ELSE orFallback

\* a variant that falls back to the launch-site snapshot when the viewer's is null
extendedWeatherOrLaunchSite(a) ==
    IF a.weatherViewing = None THEN a.weatherLaunchSite ELSE a.weatherViewing

\* the snapshot every weather field is read from: weatherViewing, and nothing
\* else (the parameter weatherLaunchSite is never read)
extendedWeather(a) == a.weatherViewing

Threw(error) == [kind |-> "threw", error |-> error]

calculateVisibility(a) ==
    LET resolved == getLaunchSite(SiteIdOrDefault(a.siteId))
    IN  \* site is undefined for an id the registry lacks: reading site.lat throws
        IF resolved = None THEN Threw("TypeError")
        ELSE
        LET site == ValueOf(resolved)
            viewer == ResolveViewer(a.viewingLocation, site)
            distanceKm == viewer.distanceKm
            bearingToLaunchSite == viewer.bearingDeg
            solarElevation == a.solarElevation
            brightness == calculateBrightnessScore(a.missionName)
            rocketType == brightness.rocketType
            lightingCondition == LightingCondition(solarElevation)
            maxVisibleDistance == MaxVisibleDistance(lightingCondition, rocketType)
            cloudFraction == WeatherField(extendedWeather(a), "clouds", 50)
            cloudBase == WeatherOption(extendedWeather(a), "cloudBase")
            surfaceVisibilityKm ==
                Rat(WeatherField(extendedWeather(a), "visibility", 10000), 1000)
            aqi == WeatherOption(extendedWeather(a), "aqi")
            upperWindSpeed == WeatherOption(extendedWeather(a), "upperWindSpeed")
            upperHumidity == WeatherOption(extendedWeather(a), "upperHumidity")
            launchAzimuth == detectLaunchAzimuth(a.missionName, site)
            cloudResult == calculateCloudScore(cloudFraction, cloudBase)
            sunScore == calculateSunScore(solarElevation)
            distanceScore == calculateDistanceScore(distanceKm, maxVisibleDistance)
            subScores ==
                [cloud |-> cloudResult.score,
                 sun |-> sunScore,
                 distance |-> distanceScore,
                 bearing |-> calculateBearingScore(bearingToLaunchSite, launchAzimuth),
                 clarity |-> calculateClarityScore(surfaceVisibilityKm, aqi,
                                 site.visibilityModifiers.humidityPenalty),
                 plume |-> calculatePlumeScore(upperHumidity, upperWindSpeed),
                 brightness |-> brightness.score,
                 obstruction |-> calculateObstructionScore(viewer.isUrban,
                                     viewer.elevation,
                                     site.visibilityModifiers.lightPollutionBase)]
            fatalBlocker == FatalBlocker(cloudResult, distanceScore, distanceKm,
                                         maxVisibleDistance, lightingCondition, sunScore)
            scored == ScoreAndRating(subScores, fatalBlocker)
            percentage == scored.computed
            siteConfidenceBand ==
                IF RLess(Rat(35, 100), site.visibilityModifiers.typicalCloudCover)
                THEN TUNING.confidenceBand + 5
                ELSE TUNING.confidenceBand
        IN  [kind |-> "ok",
             percentage |-> scored.percentage,
             rating |-> scored.rating,
             confidence |->
                 [low |-> IF percentage - siteConfidenceBand > 0
                          THEN percentage - siteConfidenceBand ELSE 0,
                  high |-> IF percentage + siteConfidenceBand < 100
                           THEN percentage + siteConfidenceBand ELSE 100],
             factors |->
                 [subScores |-> subScores,
                  weights |-> WEIGHTS,
                  rawData |->
                      [cloudFraction |-> cloudFraction,
                       cloudBase |-> cloudBase,
                       solarElevation |-> solarElevation,
                       distanceKm |-> distanceKm,
                       bearingDeg |-> bearingToLaunchSite,
                       surfaceVisibilityKm |-> surfaceVisibilityKm,
                       aqi |-> aqi,
                       upperWindSpeed |-> upperWindSpeed,
                       upperHumidity |-> upperHumidity,
                       rocketType |-> rocketType,
                       obstructionFactor |-> RSub(One, subScores.obstruction)]],
             limitingFactors |->
                 IF fatalBlocker # None
                 THEN <<[factor |-> "fatal", description |-> ValueOf(fatalBlocker),
                         severity |-> "critical"]>>
                 ELSE LimitingFactors(subScores, cloudResult, cloudFraction,
                                      solarElevation, distanceKm, surfaceVisibilityKm),
             optimalWindow |->
                 calculateVisibilityWindow(a.launchTimeUnix, solarElevation, sunScore,
                                           rocketType, site.timezone),
             recommendations |->
                 IF fatalBlocker # None
                 THEN <<ValueOf(fatalBlocker),
                        <<"Closer locations or twilight-timed launches dramatically extend viewing range.">> >>
                 ELSE Recommendations(site, a.missionName, subScores, solarElevation,
                                      lightingCondition, distanceKm, aqi, rocketType,
                                      fatalBlocker),
             viewingLocation |->
                 [name |-> viewer.name,
                  distance |-> RoundMiles(FromInt(distanceKm)),
                  distanceKm |-> distanceKm,
                  bearing |-> bearingToLaunchSite],
             fatalBlocker |-> fatalBlocker]

(***************************************************************************)
(* Inputs.  The bounds of the unbounded quantities:                        *)
(***************************************************************************)
MaxDistanceKm == 1600

MaxSunDepression == 19

MaxSolarElevation == 45

MaxViewerElevationM == 1500

MaxAqi == 250

MaxUpperWindSpeed == 60

MaxLaunchTimeUnix == 1000000

\* mission names, each the set of engine keywords its lower-cased text contains
Missions ==
    { {"falcon 9"}, {"starlink"}, {"falcon heavy"}, {"starship"}, {"electron"},
      {"crew", "dragon"} }

\* absent, the three registered sites, and an id the registry does not have
SiteIds ==
    {None, Some("vandenberg"), Some("cape-canaveral"), Some("boca-chica"),
     Some("kourou")}

RegisteredSiteIds == {Some(id) : id \in DOMAIN LAUNCH_SITES}

\* one value inside every band of the sun score and on every band edge
SolarElevations ==
    {-MaxSunDepression, -18, -12, -9, -6, -3, 0, 10, 40, MaxSolarElevation}

Viewer(d, b, e, u) ==
    [name |-> "viewer", distanceKm |-> d, bearingDeg |-> b,
     elevation |-> e, isUrban |-> u]

Weather(c, base, v, q, w, h) ==
    [clouds |-> c, cloudBase |-> base, visibility |-> v, aqi |-> q,
     upperWindSpeed |-> w, upperHumidity |-> h]

Arguments(t, m, wl, wv, vl, s, e) ==
    [launchTimeUnix |-> t, missionName |-> m, weatherLaunchSite |-> wl,
     weatherViewing |-> wv, viewingLocation |-> vl, siteId |-> s,
     solarElevation |-> e]

\* Lighting, range and cloud deck varied together (the three fatal blockers),
\* the remaining weather fields missing.
BlockerInputs ==
    LET viewers == {None} \cup
            {Some(Viewer(d, 100, None, None)) : d \in {100, 150, 900, 1100, MaxDistanceKm}}
        weathers == {None, Some(Weather(None, Some(2000), None, None, None, None))} \cup
            {Some(Weather(Some(c), base, None, None, None, None)) :
                c \in {0, 55, 70, 95}, base \in {None, Some(2000), Some(5000)}}
    IN  {Arguments(MaxLaunchTimeUnix, m, None, wv, vl, s, e) :
            m \in Missions, wv \in weathers, vl \in viewers, s \in SiteIds,
            e \in SolarElevations}

\* Bearing, viewer elevation, urban flag, surface visibility, air quality and
\* upper-air values varied together, near the pad under a clear sky.
MinorFactorInputs ==
    LET viewers ==
            {Some(Viewer(150, b, e, u)) :
                b \in {0, 100},
                e \in {None, Some(500), Some(MaxViewerElevationM)},
                u \in {None, Some(TRUE)}}
        weathers ==
            {Some(Weather(Some(0), None, Some(v), q, w, h)) :
                v \in {3000, 20000, 40000},
                q \in {None, Some(75), Some(MaxAqi)},
                w \in {None, Some(20), Some(MaxUpperWindSpeed)},
                h \in {None, Some(70)}}
    IN  {Arguments(MaxLaunchTimeUnix, m, None, wv, vl, s, e) :
            m \in {{"falcon 9"}, {"starlink"}}, wv \in weathers, vl \in viewers,
            s \in RegisteredSiteIds, e \in {-9, 30}}

\* The viewer on every whole-degree compass bearing, in a city at sea level, with
\* the worst air quality and upper-air values, near the pad under a clear sky.
BearingInputs ==
    LET viewers ==
            {Some(Viewer(150, b, Some(0), Some(TRUE))) : b \in 0..359}
        weathers ==
            {Some(Weather(Some(0), base, Some(40000), Some(MaxAqi),
                          Some(MaxUpperWindSpeed), Some(10))) :
                base \in {None, Some(2000)}}
    IN  {Arguments(MaxLaunchTimeUnix, m, None, wv, vl, s, -9) :
            m \in {{"falcon 9"}, {"starlink"}}, wv \in weathers, vl \in viewers,
            s \in RegisteredSiteIds}

\* The launch-site snapshot given (clear, or overcast with a low deck and haze)
\* beside a viewer snapshot that is missing, clear or overcast.
LaunchSiteWeatherInputs ==
    LET launchSiteWeathers ==
            {Some(Weather(Some(0), Some(5000), Some(40000), Some(75), Some(20), Some(10))),
             Some(Weather(Some(95), Some(2000), Some(3000), Some(MaxAqi),
                          Some(MaxUpperWindSpeed), Some(70)))}
        weathers ==
            {None,
             Some(Weather(Some(0), None, None, None, None, None)),
             Some(Weather(Some(95), Some(2000), None, None, None, None))}
        viewers == {None, Some(Viewer(150, 100, None, None))}
    IN  {Arguments(MaxLaunchTimeUnix, m, wl, wv, vl, s, e) :
            m \in {{"falcon 9"}}, wl \in launchSiteWeathers, wv \in weathers,
            vl \in viewers, s \in RegisteredSiteIds, e \in SolarElevations}

Inputs ==
    BlockerInputs \cup MinorFactorInputs \cup BearingInputs \cup LaunchSiteWeatherInputs

(***************************************************************************)
(* rateLimit.ts: the in-memory sliding-window rate limiter.  A request is  *)
(* modelled by the two headers getClientIp reads and by its path.          *)
(* checkRateLimit is synchronous: the model takes its readings of          *)
(* Date.now() (lines 29 and 55) to be the same millisecond.                *)
(***************************************************************************)
HttpRequest(forwardedFor, realIp, pathname) ==
    [forwardedFor |-> forwardedFor, realIp |-> realIp, pathname |-> pathname]

\* x-forwarded-for split at the commas, its first entry trimmed; an empty
\* string is falsy and falls through to x-real-ip, then to "unknown"
getClientIp(request) ==
    IF request.forwardedFor # None
       /\ ValueOf(request.forwardedFor) # <<>>
       /\ ValueOf(request.forwardedFor)[1] # ""
    THEN ValueOf(request.forwardedFor)[1]
    ELSE IF request.realIp # None /\ ValueOf(request.realIp) # ""
    THEN ValueOf(request.realIp)
    ELSE "unknown"

\* `${ip}:${request.nextUrl.pathname}`
RateKey(request) == <<getClientIp(request), request.pathname>>

\* a variant that keeps a timestamp for one millisecond longer
ValidTimestampsInclusive(timestamps, t, windowMs) ==
    SelectSeq(timestamps, LAMBDA x : t - x <= windowMs)

\* timestamps.filter((t) => now - t < windowMs)
ValidTimestamps(timestamps, t, windowMs) ==
    SelectSeq(timestamps, LAMBDA x : t - x < windowMs)

\* the body of maybeCleanup once Math.random() has come out at 0.01 or less
maybeCleanup(w, windowMs, t) ==
    LET valid(key) == SelectSeq(w[key], LAMBDA x : t - x < windowMs)
        kept == {key \in DOMAIN w : Len(valid(key)) # 0}
    IN  [key \in kept |-> valid(key)]

\* random: Math.random() <= 0.01.  Returns the answer and the Map afterwards.
checkRateLimit(w, request, limit, windowMs, t, random) ==
    LET key == RateKey(request)
        cleaned == IF random THEN maybeCleanup(w, windowMs, t) ELSE w
        timestamps == IF key \in DOMAIN cleaned THEN cleaned[key] ELSE <<>>
        validTimestamps == ValidTimestamps(timestamps, t, windowMs)
    IN  IF Len(validTimestamps) >= limit
        THEN [allowed |-> FALSE, status |-> 429, windows |-> cleaned]
        ELSE [allowed |-> TRUE, status |-> 200,
              windows |-> [k \in DOMAIN cleaned \cup {key} |->
                              IF k = key THEN Append(validTimestamps, t)
                              ELSE cleaned[k]]]

(***************************************************************************)
(* supabaseStore.ts: the table email_subscriptions, a set of rows.  The    *)
(* encrypted address is left out: a row's id stands for its address.       *)
(***************************************************************************)
Row(id, token, active, minutes, launchId, siteIds, lastNotifiedAt) ==
    [id |-> id, unsubscribe_token |-> token, is_active |-> active,
     reminder_minutes |-> minutes, launch_id |-> launchId, site_ids |-> siteIds,
     last_notified_at |-> lastNotifiedAt]

\* the rows in the table when the model starts: a subscriber to every launch,
\* one to a single site, one to a single launch, and a row marked inactive
SeedSubscriptions ==
    {Row("s1", "token-1", TRUE, 1440, None, None, None),
     Row("s2", "token-2", TRUE, 1440, None, Some({"cape-canaveral"}), None),
     Row("s3", "token-3", TRUE, 1440, Some("launch-2"), None, None),
     Row("s4", "token-4", FALSE, 1440, None, None, None)}

\* unsubscribeByToken: delete the active rows with the token and report whether
\* any row was deleted; a database error deletes nothing and reports false
unsubscribeByToken(table, token, dbError) ==
    LET data == {row \in table : row.unsubscribe_token = token /\ row.is_active}
    IN  IF dbError THEN [success |-> FALSE, table |-> table]
        ELSE [success |-> data # {}, table |-> table \ data]

\* /^[a-f0-9]{64}$/.test(token): the names "token-n" stand for 64-digit
\* lower-case hex strings, every other string for one the pattern rejects
HexTokens == {"token-1", "token-2", "token-3", "token-4", "token-9"}

\* the token parameter of a request: absent, empty, malformed, or well-formed
Tokens == {None, Some(""), Some("TOKEN 1")} \cup {Some(t) : t \in HexTokens}

(***************************************************************************)
(* The alert cron (GET of the cron route) and what it reads: the upcoming  *)
(* launches of spacex.ts and the table of subscriptions.  Times are        *)
(* milliseconds; one run reads one clock value.                            *)
(***************************************************************************)
HourMs == 3600000

Launch(id, dateUnix, siteId) == [id |-> id, date_unix |-> dateUnix, siteId |-> siteId]

\* what Launch Library 2 knows: two launches two hours apart from different
\* sites, and a later one without a site id; date_unix is in seconds
Schedule ==
    <<Launch("launch-1", 108000, Some("vandenberg")),
      Launch("launch-2", 115200, Some("cape-canaveral")),
      Launch("launch-3", 216000, None)>>

\* launches not older than twelve hours, sorted by date; nothing when the
\* API call fails
getUpcomingLaunchesAllSites(t, apiOk) ==
    IF ~apiOk THEN <<>>
    ELSE SelectSeq(Schedule, LAMBDA launch : launch.date_unix * 1000 > t - 12 * HourMs)

\* hoursUntilLaunch >= reminderHours - 12 and <= reminderHours + 12, every
\* term multiplied by the milliseconds of an hour
isWithinReminderWindow(launchTime, reminderMinutes, t) ==
    LET launchMs == launchTime * 1000
        reminderMs == reminderMinutes * 60000
    IN  /\ launchMs - t >= reminderMs - 12 * HourMs
        /\ launchMs - t <= reminderMs + 12 * HourMs

\* the order in which the table returns its rows
IdOrder == <<"s1", "s2", "s3", "s4">>

\* the active rows, as the cron's in-memory list; empty on a database error
getAllActiveSubscriptions(table, dbError) ==
    LET ids == SelectSeq(IdOrder,
                   LAMBDA id : \E row \in table : row.id = id /\ row.is_active)
    IN  IF dbError THEN <<>>
        ELSE [i \in DOMAIN ids |-> CHOOSE row \in table : row.id = ids[i]]

\* a failed update is logged and otherwise ignored
updateLastNotified(table, id, t, dbError) ==
    IF dbError THEN table
    ELSE {IF row.id = id THEN [row EXCEPT !.last_notified_at = Some(t)] ELSE row :
             row \in table}

\* the table after updateLastNotified has run for every email sent
RECURSIVE AfterUpdates(_, _, _, _)
AfterUpdates(table, sent, t, dbError) ==
    IF sent = <<>> THEN table
    ELSE AfterUpdates(updateLastNotified(table, Head(sent).subscription.id, t, dbError),
                      Tail(sent), t, dbError)

\* the tests of the inner loop that decide whether an email is attempted;
\* subscription is the copy read before the loops
ShouldSend(launch, subscription, t) ==
    LET launchSiteId == OrElse(launch.siteId, "vandenberg")
    IN  /\ ~(subscription.launch_id # None /\ ValueOf(subscription.launch_id) # launch.id)
        /\ ~(subscription.site_ids # None
               /\ launchSiteId \notin ValueOf(subscription.site_ids))
        /\ ~(subscription.last_notified_at # None
               /\ t - ValueOf(subscription.last_notified_at) < 20 * HourMs)
        /\ isWithinReminderWindow(launch.date_unix, subscription.reminder_minutes, t)

\* the (launch, subscription) pairs in the order the two loops visit them
LoopOrder(launches, subscriptions) ==
    LET n == Len(launches)
        m == Len(subscriptions)
    IN  [k \in 1..(n * m) |->
            [launch |-> launches[((k - 1) \div m) + 1],
             subscription |-> subscriptions[((k - 1) % m) + 1]]]

\* the requests the model makes: one client seen through a proxy or through
\* x-real-ip, on two paths (two keys of the limiter)
Paths == {"/api/visibility", "/api/alerts/unsubscribe"}

Clients ==
    {HttpRequest(Some(<<"203.0.113.7", "10.0.0.1">>), None, p) : p \in Paths}
    \cup {HttpRequest(None, Some("203.0.113.7"), "/api/visibility")}

RateKeys == {RateKey(c) : c \in Clients}

\* the server process has just started
ServerInit ==
    /\ windows = <<>>
    /\ now = 0
    /\ allowedAt = [key \in RateKeys |-> <<>>]
    /\ email_subscriptions = SeedSubscriptions
    /\ outbox = <<>>

(***************************************************************************)
(* The state machine: a caller invokes calculateVisibility with some       *)
(* arguments and holds the result (or the exception) until it lets go.     *)
(***************************************************************************)
NoResult == [kind |-> "none"]

Init ==
    /\ args = None
    /\ result = NoResult
    /\ ServerInit

\* the caller assembles the arguments of its next call
Request ==
    /\ args = None
    /\ \E a \in Inputs : args' = Some(a)
    /\ UNCHANGED <<result, server>>

\* calculateVisibility runs to its return statement, or throws
Call ==
    /\ args # None
    /\ result = NoResult
    /\ result' = calculateVisibility(ValueOf(args))
    /\ UNCHANGED <<args, server>>

\* the caller is done with the result
Return ==
    /\ result # NoResult
    /\ args' = None
    /\ result' = NoResult
    /\ UNCHANGED server

Next == Request \/ Call \/ Return

Spec == Init /\ [][Next]_vars

Returned == result.kind = "ok"

Arg == ValueOf(args)


(***************************************************************************)
(* The sub-score calculators on their own: the input of one calculator is  *)
(* drawn from its whole bounded domain and the calculator is applied once. *)
(***************************************************************************)
MaxCloudFraction == 100

\* unknown, and one value on each side of the two altitudes the code tests
CloudBases == {None, Some(0), Some(2999), Some(3000), Some(39999), Some(40000)}

Lightings == {"twilight", "night", "day"}

RocketTypes == {"falcon9", "falconHeavy", "starship", "smallRocket"}

CloudInput(f, base) == [fn |-> "cloud", cloudFraction |-> f, cloudBase |-> base]

SunInput(e) == [fn |-> "sun", solarElevation |-> e]

DistanceInput(d, l, r) ==
    [fn |-> "distance", distanceKm |-> d, lightingCondition |-> l, rocketType |-> r]

\* the keywords the rocket-type heuristics look for in a mission name
RocketKeywords ==
    {"falcon heavy", "fh", "starship", "electron", "rocket lab", "falcon 9", "starlink"}

\* every mission name, as the set of those keywords its text contains
MissionNames == SUBSET RocketKeywords

RadiusInput(e, m) == [fn |-> "radius", solarElevation |-> e, missionName |-> m]

CalcInputs ==
    {CloudInput(f, base) : f \in 0..MaxCloudFraction, base \in CloudBases}
    \cup {SunInput(e) : e \in (-MaxSunDepression)..MaxSolarElevation}
    \cup {DistanceInput(d, l, r) :
             d \in 0..MaxDistanceKm, l \in Lightings, r \in RocketTypes}
    \cup {RadiusInput(e, m) :
             e \in (-MaxSunDepression)..MaxSolarElevation, m \in MissionNames}

CalcInit ==
    /\ args \in {Some(i) : i \in CalcInputs}
    /\ result = NoResult
    /\ ServerInit

CallCloudScore ==
    /\ result = NoResult
    /\ Arg.fn = "cloud"
    /\ result' = [kind |-> "cloud",
                  value |-> calculateCloudScore(Arg.cloudFraction, Arg.cloudBase)]
    /\ UNCHANGED <<args, server>>

CallSunScore ==
    /\ result = NoResult
    /\ Arg.fn = "sun"
    /\ result' = [kind |-> "sun", value |-> calculateSunScore(Arg.solarElevation)]
    /\ UNCHANGED <<args, server>>

\* the distance score as calculateVisibility asks for it: against the maximum
\* of the lighting condition and the rocket type
CallDistanceScore ==
    /\ result = NoResult
    /\ Arg.fn = "distance"
    /\ result' = [kind |-> "distance",
                  value |-> calculateDistanceScore(Arg.distanceKm,
                                MaxVisibleDistance(Arg.lightingCondition, Arg.rocketType))]
    /\ UNCHANGED <<args, server>>

\* the map asks the helpers for the radius to draw for a launch
CallRadiusHelpers ==
    /\ result = NoResult
    /\ Arg.fn = "radius"
    /\ result' = [kind |-> "radius",
                  condition |-> getLightingCondition(Arg.solarElevation),
                  rocketType |-> detectRocketType(Arg.missionName),
                  radiusKm |-> getMaxVisibleRadiusKm(Arg.solarElevation,
                                   detectRocketType(Arg.missionName))]
    /\ UNCHANGED <<args, server>>

CalcNext == CallCloudScore \/ CallSunScore \/ CallDistanceScore \/ CallRadiusHelpers

CalcSpec == CalcInit /\ [][CalcNext]_vars

(***************************************************************************)
(* The rate limiter on its own: requests of several clients arrive while   *)
(* the clock advances, every call with the same limit and windowMs.        *)
(***************************************************************************)
Limit == 2

WindowMs == 3

MaxNow == 5

RateInit ==
    /\ args = None
    /\ result = NoResult
    /\ ServerInit

\* the log of allowed requests after an answer of the limiter
LogAllowed(answer, key) ==
    IF answer.allowed THEN [allowedAt EXCEPT ![key] = Append(@, now)] ELSE allowedAt

\* one call of checkRateLimit; its answer is kept in result and, when it is
\* "allowed", its time is added to the log of its key
CheckRateLimit ==
    \E request \in Clients, random \in BOOLEAN :
        LET answer == checkRateLimit(windows, request, Limit, WindowMs, now, random)
            key == RateKey(request)
        IN  /\ windows' = answer.windows
            /\ result' = [kind |-> "rateCheck", key |-> key, at |-> now,
                          allowed |-> answer.allowed, status |-> answer.status]
            /\ allowedAt' = LogAllowed(answer, key)
            /\ UNCHANGED <<args, now, email_subscriptions, outbox>>

\* a millisecond passes
Tick ==
    /\ now < MaxNow
    /\ now' = now + 1
    /\ UNCHANGED <<args, result, windows, allowedAt, email_subscriptions, outbox>>

RateNext == CheckRateLimit \/ Tick

RateSpec == RateInit /\ [][RateNext]_vars

(***************************************************************************)
(* /api/alerts/unsubscribe: the three handlers of the route, called in a   *)
(* burst (the clock stands still) by the clients of the path.              *)
(***************************************************************************)
UnsubscribeClients == {c \in Clients : c.pathname = "/api/alerts/unsubscribe"}

\* the 429 of the limiter, as a handler returns it
TooManyRequests(route, method) ==
    [kind |-> "http", route |-> route, method |-> method, status |-> 429,
     body |-> "Too many requests. Please try again later."]

UnsubscribeResponse(method, status, body, token) ==
    [kind |-> "http", route |-> "unsubscribe", method |-> method, status |-> status,
     body |-> body, token |-> token]

\* GET: the link of the alert email.  The body names the HTML page returned.
UnsubscribeGET ==
    \E request \in UnsubscribeClients, token \in Tokens, random, dbError \in BOOLEAN :
        LET rateCheck == checkRateLimit(windows, request, 10, 60000, now, random)
            deleted == unsubscribeByToken(email_subscriptions, ValueOf(token), dbError)
        IN  /\ windows' = rateCheck.windows
            /\ allowedAt' = LogAllowed(rateCheck, RateKey(request))
            /\ IF ~rateCheck.allowed
               THEN /\ result' = TooManyRequests("unsubscribe", "GET")
                    /\ UNCHANGED email_subscriptions
               ELSE IF token = None \/ ValueOf(token) = ""
                       \/ ValueOf(token) \notin HexTokens
               THEN /\ result' = UnsubscribeResponse("GET", 200, "invalid", token)
                    /\ UNCHANGED email_subscriptions
               ELSE /\ email_subscriptions' = deleted.table
                    /\ result' = UnsubscribeResponse("GET", 200,
                                     IF deleted.success THEN "success" ELSE "notfound",
                                     token)
            /\ UNCHANGED <<args, now, outbox>>

\* POST: sent by the form of the confirmation page; the same steps as GET
UnsubscribePOST ==
    \E request \in UnsubscribeClients, token \in Tokens, random, dbError \in BOOLEAN :
        LET rateCheck == checkRateLimit(windows, request, 10, 60000, now, random)
            deleted == unsubscribeByToken(email_subscriptions, ValueOf(token), dbError)
        IN  /\ windows' = rateCheck.windows
            /\ allowedAt' = LogAllowed(rateCheck, RateKey(request))
            /\ IF ~rateCheck.allowed
               THEN /\ result' = TooManyRequests("unsubscribe", "POST")
                    /\ UNCHANGED email_subscriptions
               ELSE IF token = None \/ ValueOf(token) = ""
                       \/ ValueOf(token) \notin HexTokens
               THEN /\ result' = UnsubscribeResponse("POST", 200, "invalid", token)
                    /\ UNCHANGED email_subscriptions
               ELSE /\ email_subscriptions' = deleted.table
                    /\ result' = UnsubscribeResponse("POST", 200,
                                     IF deleted.success THEN "success" ELSE "notfound",
                                     token)
            /\ UNCHANGED <<args, now, outbox>>

\* the programmatic unsubscribe: JSON, with a status code for every failure
UnsubscribeDELETE ==
    \E request \in UnsubscribeClients, token \in Tokens, random, dbError \in BOOLEAN :
        LET rateCheck == checkRateLimit(windows, request, 10, 60000, now, random)
            deleted == unsubscribeByToken(email_subscriptions, ValueOf(token), dbError)
        IN  /\ windows' = rateCheck.windows
            /\ allowedAt' = LogAllowed(rateCheck, RateKey(request))
            /\ IF ~rateCheck.allowed
               THEN /\ result' = TooManyRequests("unsubscribe", "DELETE")
                    /\ UNCHANGED email_subscriptions
               ELSE IF token = None \/ ValueOf(token) = ""
               THEN /\ result' = UnsubscribeResponse("DELETE", 400,
                                     "Unsubscribe token is required", token)
                    /\ UNCHANGED email_subscriptions
               ELSE IF ValueOf(token) \notin HexTokens
               THEN /\ result' = UnsubscribeResponse("DELETE", 400,
                                     "Invalid unsubscribe token format", token)
                    /\ UNCHANGED email_subscriptions
               ELSE /\ email_subscriptions' = deleted.table
                    /\ result' =
                           IF deleted.success
                           THEN UnsubscribeResponse("DELETE", 200,
                                    "Successfully unsubscribed. Your data has been permanently deleted.",
                                    token)
                           ELSE UnsubscribeResponse("DELETE", 404,
                                    "Subscription not found or already removed", token)
            /\ UNCHANGED <<args, now, outbox>>

UnsubscribeNext == UnsubscribeGET \/ UnsubscribePOST \/ UnsubscribeDELETE

UnsubscribeSpec == RateInit /\ [][UnsubscribeNext]_vars

(***************************************************************************)
(* The alert cron over time: runs of the cron, hours apart or at once.     *)
(***************************************************************************)
MaxCronHours == 40

MaxOutbox == 4

CronResponse(status, message, emailsSent) ==
    [kind |-> "http", route |-> "cron", method |-> "GET", status |-> status,
     message |-> message, emailsSent |-> emailsSent]

\* one run.  authorized: the header carries the cron secret; apiOk: Launch
\* Library 2 answers; readError, updateError: the database fails on the read
\* or on the updates; bounced: the addresses Resend refuses.
AlertCronGET ==
    /\ Len(outbox) < MaxOutbox
    /\ \E authorized, apiOk, readError, updateError \in BOOLEAN, bounced \in {{}, {"s2"}} :
        LET launches == getUpcomingLaunchesAllSites(now, apiOk)
            subscriptions == getAllActiveSubscriptions(email_subscriptions, readError)
            attempts == SelectSeq(LoopOrder(launches, subscriptions),
                            LAMBDA p : ShouldSend(p.launch, p.subscription, now))
            sent == SelectSeq(attempts, LAMBDA p : p.subscription.id \notin bounced)
        IN  IF ~authorized
            THEN /\ result' = CronResponse(401, "Unauthorized", 0)
                 /\ UNCHANGED <<email_subscriptions, outbox>>
            ELSE IF Len(launches) = 0
            THEN /\ result' = CronResponse(200, "No upcoming launches", 0)
                 /\ UNCHANGED <<email_subscriptions, outbox>>
            ELSE IF Len(subscriptions) = 0
            THEN /\ result' = CronResponse(200, "No active subscriptions", 0)
                 /\ UNCHANGED <<email_subscriptions, outbox>>
            ELSE /\ outbox' = outbox \o
                        [i \in DOMAIN sent |->
                            [to |-> sent[i].subscription.id,
                             launch |-> sent[i].launch.id, at |-> now]]
                 /\ email_subscriptions' =
                        AfterUpdates(email_subscriptions, sent, now, updateError)
                 /\ result' = CronResponse(200, "Processed", Len(sent))
    /\ UNCHANGED <<args, windows, now, allowedAt>>

\* five hours pass
HoursPass ==
    /\ now + 5 * HourMs <= MaxCronHours * HourMs
    /\ now' = now + 5 * HourMs
    /\ UNCHANGED <<args, result, windows, allowedAt, email_subscriptions, outbox>>

CronNext == AlertCronGET \/ HoursPass

CronSpec == RateInit /\ [][CronNext]_vars

(***************************************************************************)
(* weather.ts, as far as the visibility route uses it.  A snapshot carries *)
(* the name of the place it describes (WeatherData.location); which sky    *)
(* lies over which place is the environment's, fixed here to differ from   *)
(* place to place.  ok: the Open-Meteo call succeeded (null otherwise).    *)
(***************************************************************************)
LOCATIONS ==
    [x \in {"vandenberg", "cape-canaveral", "boca-chica", "phoenix"} |->
        CASE x = "vandenberg"     -> [name |-> "Vandenberg SFB"]
          [] x = "cape-canaveral" -> [name |-> "Cape Canaveral SFS"]
          [] x = "boca-chica"     -> [name |-> "Starbase"]
          [] x = "phoenix"        -> [name |-> "Phoenix, AZ"]]

\* clear over the desert, a low overcast over the coastal pads, broken cloud
\* anywhere else; Open-Meteo gives no air quality (aqi: null)
SkyOver(name) ==
    IF name = "Phoenix, AZ"
    THEN Weather(Some(0), None, Some(40000), None, Some(20), Some(10))
    ELSE IF \E x \in DOMAIN LOCATIONS : LOCATIONS[x].name = name
    THEN Weather(Some(95), Some(600), Some(3000), None, Some(20), Some(70))
    ELSE Weather(Some(55), Some(2000), Some(20000), None, Some(20), Some(70))

Snapshot(name) == [location |-> name] @@ SkyOver(name)

getWeather(location, ok) ==
    IF ok THEN Some(Snapshot(LOCATIONS[location].name)) ELSE None

getWeatherForecast(location, targetTimestamp, ok) ==
    IF ok THEN Some(Snapshot(LOCATIONS[location].name)) ELSE None

\* the coordinates are the viewer's place; the snapshot is labelled with name
getWeatherForCoords(place, name, ok) ==
    IF ok THEN Some(Snapshot(name)) ELSE None

getWeatherForecastForCoords(place, name, targetTimestamp, ok) ==
    IF ok THEN Some(Snapshot(name)) ELSE None

getAllWeather(siteId, ok) ==
    [launchSite |-> getWeather(siteId, ok), phoenix |-> getWeather("phoenix", ok)]

(***************************************************************************)
(* GET /api/visibility: requests arrive in a burst (the clock stands       *)
(* still).  A request carries its query parameters and, in place of the    *)
(* trigonometry, where its coordinates lie (distance and bearing to the    *)
(* pad) and how high the sun stands there at launch time.                  *)
(***************************************************************************)
VALID_SITE_IDS == {"vandenberg", "cape-canaveral", "boca-chica"}

\* lat and lon: both absent, only one given, out of range, or a valid place
Coordinates ==
    {[given |-> "none"], [given |-> "latOnly"], [given |-> "invalid"],
     [given |-> "valid", distanceKm |-> 150, bearingDeg |-> 100]}

\* launchTime: absent, not a number, now, in an hour (both in seconds)
LaunchTimes ==
    {[given |-> "none"], [given |-> "notANumber"],
     [given |-> "number", value |-> 0], [given |-> "number", value |-> 3600]}

VisibilityRequests ==
    {[launchTime |-> t, missionName |-> Some({"starlink"}), siteId |-> s,
      coords |-> c, locationName |-> None, solarElevation |-> -9, weatherOk |-> ok] :
        t \in LaunchTimes, s \in {None, Some("cape-canaveral"), Some("kourou")},
        c \in Coordinates, ok \in BOOLEAN}

VisibilityClient == HttpRequest(Some(<<"203.0.113.7", "10.0.0.1">>), None, "/api/visibility")

VisibilityResponse(status, body) ==
    [kind |-> "http", route |-> "visibility", method |-> "GET", status |-> status,
     body |-> body]

\* the response once the engine has answered: the catch block's 500 when it
\* threw, else its answer spread into data beside the inputs and both snapshots
VisibilityData(visibility, launchTimestamp, missionName, siteId, weatherLaunchSite, weatherViewing) ==
    IF visibility.kind = "threw"
    THEN VisibilityResponse(500, "Failed to calculate visibility")
    ELSE VisibilityResponse(200,
             [visibility |-> visibility, launchTime |-> launchTimestamp,
              missionName |-> missionName, siteId |-> siteId,
              weather |-> [launchSite |-> weatherLaunchSite,
                           viewing |-> weatherViewing]])

\* the handler after the rate check
VisibilityHandler(q, t) ==
    LET missionName == OrElse(q.missionName, {})
        siteId == IF q.siteId = None \/ ValueOf(q.siteId) = "" THEN "vandenberg"
                  ELSE ValueOf(q.siteId)
        locationName == OrElse(q.locationName, "Custom Location")
        launchTimestamp == q.launchTime.value
        nowSeconds == t \div 1000
        weatherSiteKey == IF siteId \in VALID_SITE_IDS THEN siteId ELSE "vandenberg"
        custom == q.coords.given \in {"invalid", "valid"}
        viewingLocation ==
            IF custom
            THEN Some([name |-> locationName, distanceKm |-> q.coords.distanceKm,
                       bearingDeg |-> q.coords.bearingDeg, elevation |-> None,
                       isUrban |-> None])
            ELSE None
        \* hoursUntilLaunch <= 0 || hoursUntilLaunch > 120
        useCurrent == launchTimestamp - nowSeconds <= 0
                      \/ launchTimestamp - nowSeconds > 120 * 3600
        currentWeather == getAllWeather(weatherSiteKey, q.weatherOk)
        weatherLaunchSite ==
            IF useCurrent THEN currentWeather.launchSite
            ELSE getWeatherForecast(weatherSiteKey, launchTimestamp, q.weatherOk)
        weatherViewing ==
            IF useCurrent
            THEN IF custom
                 THEN getWeatherForCoords(q.coords, locationName, q.weatherOk)
                 ELSE currentWeather.phoenix
            ELSE IF custom
                 THEN getWeatherForecastForCoords(q.coords, locationName,
                                                  launchTimestamp, q.weatherOk)
                 ELSE getWeatherForecast("phoenix", launchTimestamp, q.weatherOk)
    IN  IF q.launchTime.given = "none"
        THEN VisibilityResponse(400, "launchTime parameter is required (Unix timestamp)")
        ELSE IF q.launchTime.given = "notANumber"
        THEN VisibilityResponse(400, "Invalid launchTime")
        ELSE IF q.coords.given = "invalid"
        THEN VisibilityResponse(400, "Invalid coordinates")
        ELSE VisibilityData(
                 calculateVisibility(Arguments(launchTimestamp, missionName,
                     weatherLaunchSite, weatherViewing, viewingLocation, Some(siteId),
                     q.solarElevation)),
                 launchTimestamp, missionName, siteId, weatherLaunchSite,
                 weatherViewing)

VisibilityGET ==
    \E q \in VisibilityRequests, random \in BOOLEAN :
        LET rateCheck == checkRateLimit(windows, VisibilityClient, 30, 60000, now, random)
        IN  /\ windows' = rateCheck.windows
            /\ allowedAt' = LogAllowed(rateCheck, RateKey(VisibilityClient))
            /\ result' = IF ~rateCheck.allowed
                         THEN TooManyRequests("visibility", "GET")
                         ELSE VisibilityHandler(q, now)
            /\ UNCHANGED <<args, now, email_subscriptions, outbox>>

VisibilitySpec == RateInit /\ [][VisibilityGET]_vars

(***************************************************************************)
(* What the claims speak about                                             *)
(***************************************************************************)
Called == args # None /\ result # NoResult

SubScore == result.factors.subScores

Raw == result.factors.rawData

Blocked == result.fatalBlocker # None

SubScoreNames ==
    {"cloud", "sun", "distance", "bearing", "clarity", "plume", "brightness",
     "obstruction"}

\* which of the three blockers a fatalBlocker value is
BlockerKind(fatalBlocker) ==
    IF fatalBlocker = None THEN "none"
    ELSE LET text == ValueOf(fatalBlocker)[1]
         IN  IF text = CloudBlockerText THEN "cloud"
             ELSE IF text = MiddayBlockerText THEN "sun"
             ELSE "distance"

\* the weights as the specification lists them, in hundredths
StatedWeights ==
    [cloud |-> 35, sun |-> 25, distance |-> 15, clarity |-> 10, plume |-> 5,
     bearing |-> 4, brightness |-> 4, obstruction |-> 2]

\* sum over the eight factors of subScore x weight, times 100, rounded
StatedPercentage(sub) ==
    Round(RAdd(RAdd(RAdd(RAdd(RAdd(RAdd(RAdd(
        RMul(sub.cloud, FromInt(StatedWeights.cloud)),
        RMul(sub.sun, FromInt(StatedWeights.sun))),
        RMul(sub.distance, FromInt(StatedWeights.distance))),
        RMul(sub.clarity, FromInt(StatedWeights.clarity))),
        RMul(sub.plume, FromInt(StatedWeights.plume))),
        RMul(sub.bearing, FromInt(StatedWeights.bearing))),
        RMul(sub.brightness, FromInt(StatedWeights.brightness))),
        RMul(sub.obstruction, FromInt(StatedWeights.obstruction))))

\* the maximum visible distance of the result's own lighting and rocket
StatedMaxDistance ==
    LET e == Raw.solarElevation
        lighting == IF e > 0 THEN "day" ELSE IF e < -18 THEN "night" ELSE "twilight"
    IN  VISIBILITY_CONFIG.maxVisibleDistance[lighting][Raw.rocketType]

OutOfRange == Raw.distanceKm > StatedMaxDistance

CloudDeckOpaque ==
    /\ Raw.cloudFraction > 80
    /\ Raw.cloudBase # None
    /\ ValueOf(Raw.cloudBase) < 40000

Midday == RLess(SubScore.sun, Rat(1, 10))

SiteResolves(siteId) == siteId = None \/ siteId \in RegisteredSiteIds

Missing(weather, field) == weather = None \/ ValueOf(weather)[field] = None

\* the weather fields the engine reads
WeatherFields ==
    {"clouds", "cloudBase", "visibility", "aqi", "upperWindSpeed", "upperHumidity"}

(***************************************************************************)
(* C1.  Whenever a returned result has a non-null fatalBlocker, its        *)
(* percentage is at most 5 and its rating is "poor".                       *)
(***************************************************************************)
C1_FatalBlockerClamp ==
    (Returned /\ Blocked) => (result.percentage <= 5 /\ result.rating = "poor")

C1_Witness ==
    /\ Returned
    /\ Blocked
    /\ RLess(Rat(5, 100), WeightedScore(SubScore, None))
    /\ result.percentage <= 5
    /\ result.rating = "poor"

(***************************************************************************)
(* C2.  A call with a siteId that is no registered site does not throw and *)
(* returns what the same call returns for "vandenberg".                    *)
(***************************************************************************)
C2_UnknownSiteFallsBack ==
    (Called /\ ~SiteResolves(Arg.siteId)) =>
        /\ result.kind = "ok"
        /\ result = calculateVisibility([Arg EXCEPT !.siteId = Some("vandenberg")])

(***************************************************************************)
(* C3.  In every returned result each of the eight sub-scores lies in      *)
(* [0, 1] and the percentage lies in [0, 100].                             *)
(***************************************************************************)
C3_Ranges ==
    Returned =>
        /\ \A f \in SubScoreNames : InUnitInterval(SubScore[f])
        /\ result.percentage >= 0
        /\ result.percentage <= 100

C3_Witness ==
    /\ Returned
    /\ ~Blocked
    /\ SubScore.bearing = One
    /\ SubScore.distance # Zero
    /\ result.percentage > 50

(***************************************************************************)
(* C4.  Missing weather never makes the call fail: a call whose            *)
(* weatherViewing is null or lacks fields returns a result, with cloud     *)
(* fraction 50, surface visibility 10 km and null for cloud base, AQI,     *)
(* upper wind speed and upper humidity wherever the field is missing; and  *)
(* no cloud blocker is raised on the defaults.                             *)
(***************************************************************************)
C4_AsClaimed ==
    (Called /\ \E f \in WeatherFields : Missing(Arg.weatherViewing, f)) =>
        LET w == Arg.weatherViewing
        IN  /\ result.kind = "ok"
            /\ Missing(w, "clouds") => Raw.cloudFraction = 50
            /\ Missing(w, "visibility") => Raw.surfaceVisibilityKm = FromInt(10)
            /\ Missing(w, "cloudBase") => Raw.cloudBase = None
            /\ Missing(w, "aqi") => Raw.aqi = None
            /\ Missing(w, "upperWindSpeed") => Raw.upperWindSpeed = None
            /\ Missing(w, "upperHumidity") => Raw.upperHumidity = None
            /\ (Missing(w, "clouds") \/ Missing(w, "cloudBase")) =>
                   BlockerKind(result.fatalBlocker) # "cloud"

(***************************************************************************)
(* C4, where the site id resolves.  The weather defaults themselves: the   *)
(* call returns, and every missing weather field takes its default.        *)
(***************************************************************************)
C4_WeatherDefaults ==
    (Called /\ SiteResolves(Arg.siteId)) =>
        LET w == Arg.weatherViewing
        IN  /\ result.kind = "ok"
            /\ Missing(w, "clouds") => Raw.cloudFraction = 50
            /\ Missing(w, "visibility") => Raw.surfaceVisibilityKm = FromInt(10)
            /\ Missing(w, "cloudBase") => Raw.cloudBase = None
            /\ Missing(w, "aqi") => Raw.aqi = None
            /\ Missing(w, "upperWindSpeed") => Raw.upperWindSpeed = None
            /\ Missing(w, "upperHumidity") => Raw.upperHumidity = None
            /\ (Missing(w, "clouds") \/ Missing(w, "cloudBase")) =>
                   BlockerKind(result.fatalBlocker) # "cloud"

C4_Witness ==
    /\ Returned
    /\ Arg.weatherViewing = None
    /\ Raw.cloudFraction = 50
    /\ Raw.surfaceVisibilityKm = FromInt(10)
    /\ SubScore.cloud = Half

(***************************************************************************)
(* C5.  The fatal blocker is that of the first condition that holds, in    *)
(* the order opaque cloud deck, distance beyond the maximum of the         *)
(* lighting and rocket, sun score below 0.1; it is null exactly when none  *)
(* of the three holds.                                                     *)
(***************************************************************************)
C5_FirstBlockerWins ==
    Returned =>
        BlockerKind(result.fatalBlocker) =
            IF CloudDeckOpaque THEN "cloud"
            ELSE IF OutOfRange THEN "distance"
            ELSE IF Midday THEN "sun"
            ELSE "none"

C5_Witness ==
    /\ Returned
    /\ CloudDeckOpaque
    /\ OutOfRange
    /\ Midday
    /\ BlockerKind(result.fatalBlocker) = "cloud"

(***************************************************************************)
(* C6.  Whenever the distance exceeds the maximum visible distance of the  *)
(* lighting condition and rocket type, the distance sub-score is 0, the    *)
(* fatal blocker is set and the percentage is at most 5.                   *)
(***************************************************************************)
C6_OutOfRangeBlocks ==
    (Returned /\ OutOfRange) =>
        /\ SubScore.distance = Zero
        /\ Blocked
        /\ result.percentage <= 5

C6_Witness ==
    /\ Returned
    /\ Raw.rocketType = "falcon9"
    /\ Raw.solarElevation > 0
    /\ Raw.distanceKm = 900
    /\ StatedMaxDistance = 200
    /\ SubScore.distance = Zero
    /\ Blocked

(***************************************************************************)
(* C7.  Without a fatal blocker the percentage is the sum of sub-score x   *)
(* weight over the eight factors, times 100, rounded to the nearest        *)
(* integer.                                                                *)
(***************************************************************************)
C7_WeightedSum ==
    (Returned /\ ~Blocked) => result.percentage = StatedPercentage(SubScore)

C7_Witness ==
    /\ Returned
    /\ ~Blocked
    /\ result.percentage = StatedPercentage(SubScore)
    /\ result.percentage > 5
    /\ result.percentage < 100

(***************************************************************************)
(* C8.  As claimed: under a fatal blocker the percentage is min(P, 5), P   *)
(* the rounded weighted sum of the eight sub-scores.                       *)
(***************************************************************************)
C8_AsClaimed ==
    (Returned /\ Blocked) =>
        result.percentage =
            (IF StatedPercentage(SubScore) < 5 THEN StatedPercentage(SubScore) ELSE 5)

(***************************************************************************)
(* C8, amended.  Under a fatal blocker the percentage is 0: the weighted   *)
(* sum is not taken, whatever the eight sub-scores are.                    *)
(***************************************************************************)
C8_BlockedIsZero ==
    (Returned /\ Blocked) => result.percentage = 0

C8_Witness ==
    /\ Returned
    /\ Blocked
    /\ StatedPercentage(SubScore) >= 5
    /\ result.percentage = 0

C10_Weights ==
    /\ \A f \in SubScoreNames : WEIGHTS[f] = Rat(StatedWeights[f], 100)
    /\ DOMAIN WEIGHTS = SubScoreNames
    /\ RAdd(RAdd(RAdd(RAdd(RAdd(RAdd(RAdd(WEIGHTS.cloud, WEIGHTS.sun),
           WEIGHTS.distance), WEIGHTS.clarity), WEIGHTS.plume), WEIGHTS.bearing),
           WEIGHTS.brightness), WEIGHTS.obstruction) = One
    /\ Returned =>
           \A f \in SubScoreNames :
               result.factors.weights[f] = Rat(StatedWeights[f], 100)

C10_Witness ==
    /\ Returned
    /\ result.factors.weights.cloud = Rat(35, 100)
    /\ result.factors.weights.obstruction = Rat(2, 100)

(***************************************************************************)
(* C11.  The sun score is 1 for every solar elevation in [-12, -6] and     *)
(* below 1 outside it: 0.95 on (-6,-3], 0.85 on (-3,0] and on [-18,-12),   *)
(* 0.65 below -18, 0.30 on (0,10], 0.15 on (10,40], 0.05 above 40; and the *)
(* score at -9 exceeds the score at 45.                                    *)
(***************************************************************************)
C11_SunScoreBands ==
    (result.kind = "sun") =>
        LET e == Arg.solarElevation
            s == result.value
        IN  /\ (e >= -12 /\ e <= -6) => s = One
            /\ (e < -12 \/ e > -6) => RLess(s, One)
            /\ (e > -6 /\ e <= -3) => s = Rat(95, 100)
            /\ (e > -3 /\ e <= 0) => s = Rat(85, 100)
            /\ (e >= -18 /\ e < -12) => s = Rat(85, 100)
            /\ (e < -18) => s = Rat(65, 100)
            /\ (e > 0 /\ e <= 10) => s = Rat(30, 100)
            /\ (e > 10 /\ e <= 40) => s = Rat(15, 100)
            /\ (e > 40) => s = Rat(5, 100)
            /\ (e = -9) => RLess(calculateSunScore(45), s)

C11_Witness ==
    /\ result.kind = "sun"
    /\ Arg.solarElevation = -6
    /\ result.value = One

(***************************************************************************)
(* C12.  With the cloud base held fixed, the cloud score does not grow     *)
(* with the cloud fraction: the score at a fraction is at most the score   *)
(* at every smaller fraction.                                              *)
(***************************************************************************)
C12_CloudScoreMonotone ==
    (result.kind = "cloud") =>
        \A f1 \in 0..Arg.cloudFraction :
            RLeq(result.value.score, calculateCloudScore(f1, Arg.cloudBase).score)

C12_Witness ==
    /\ result.kind = "cloud"
    /\ Arg.cloudFraction = 80
    /\ Arg.cloudBase = Some(2999)
    /\ result.value.score = Rat(4, 100)
    /\ calculateCloudScore(60, Arg.cloudBase).score = Rat(40, 100)

(***************************************************************************)
(* C14.  A Falcon 9 seen from 150 km at solar elevation -9 under a clear   *)
(* sky (cloud 0 %, surface visibility 40 km) has sun score 1, no fatal     *)
(* blocker and rating "excellent", whatever the site, bearing, viewer      *)
(* elevation, urban flag, AQI and upper-air values are.                    *)
(***************************************************************************)
C14_ClearTwilightIsExcellent ==
    (/\ Returned
     /\ Raw.rocketType = "falcon9"
     /\ Raw.solarElevation = -9
     /\ Raw.distanceKm = 150
     /\ Raw.cloudFraction = 0
     /\ Raw.surfaceVisibilityKm = FromInt(40)) =>
        /\ SubScore.sun = One
        /\ ~Blocked
        /\ result.rating = "excellent"

C14_Witness ==
    /\ Returned
    /\ Raw.rocketType = "falcon9"
    /\ Raw.solarElevation = -9
    /\ Raw.distanceKm = 150
    /\ Raw.cloudFraction = 0
    /\ Raw.surfaceVisibilityKm = FromInt(40)
    /\ Raw.aqi = Some(MaxAqi)
    /\ SubScore.bearing = Rat(6, 10)
    /\ result.rating = "excellent"
    /\ result.percentage < 90

(***************************************************************************)
(* C15.  At the same distance and lighting condition the distance score of *)
(* a Starship is never below that of a Falcon 9, and at 1100 km in         *)
(* twilight it is positive while the Falcon 9 score is 0.                  *)
(***************************************************************************)
C15_StarshipSeenFarther ==
    (result.kind = "distance" /\ Arg.rocketType = "starship") =>
        LET falcon9Score ==
                calculateDistanceScore(Arg.distanceKm,
                    MaxVisibleDistance(Arg.lightingCondition, "falcon9"))
        IN  /\ RLeq(falcon9Score, result.value)
            /\ (Arg.distanceKm = 1100 /\ Arg.lightingCondition = "twilight") =>
                   (falcon9Score = Zero /\ RLess(Zero, result.value))

C15_Witness ==
    /\ result.kind = "distance"
    /\ Arg.rocketType = "starship"
    /\ Arg.lightingCondition = "twilight"
    /\ Arg.distanceKm = 1100
    /\ result.value = Rat(4, 15)

(***************************************************************************)
(* C16.  Without a fatal blocker the limiting factors are: the cloud       *)
(* caution first, if the cloud calculator gave a non-fatal reason; then,   *)
(* of the factors among cloud, sun, distance, clarity, plume whose score   *)
(* is below 0.5, the (up to) two with the smallest score x weight, each    *)
(* "major" if its score is below 0.3 and "minor" otherwise.                *)
(***************************************************************************)
C16_AsClaimed ==
    (Returned /\ ~Blocked) =>
        LET cloudResult == calculateCloudScore(Raw.cloudFraction, Raw.cloudBase)
            low(name) == RLess(SubScore[name], Half)
            lows == SelectSeq(SortedFactors(SubScore), low)
            worst == SubSeq(lows, 1, IF Len(lows) < 2 THEN Len(lows) ELSE 2)
            caution == IF cloudResult.reason # None /\ ~cloudResult.isFatal
                       THEN <<"cloud">> ELSE << >>
            names == caution \o worst
            listed == result.limitingFactors
        IN  /\ Len(listed) = Len(names)
            /\ \A i \in 1..Len(names) :
                   /\ listed[i].factor = names[i]
                   /\ listed[i].severity =
                          (IF RLess(SubScore[names[i]], Rat(3, 10))
                           THEN "major" ELSE "minor")

(***************************************************************************)
(* C17.  The optimal window has start = end = null and duration 0 exactly  *)
(* when the sun score is below 0.2.  Otherwise start is the launch time    *)
(* plus the rocket's time to altitude (60 s, 120 s for a small rocket) and *)
(* end is start plus the rocket's visible duration (Falcon 9 6 min, Falcon *)
(* Heavy 7, Starship 8, small rocket 4), so launch < start < end; start    *)
(* and end are never null separately.                                      *)
(***************************************************************************)
C17_Window ==
    Returned =>
        LET w == result.optimalWindow
            launch == Arg.launchTimeUnix * 1000
            rocket == Raw.rocketType
            toAltitude == IF rocket = "smallRocket" THEN 120 * 1000 ELSE 60 * 1000
            minutes == CASE rocket = "falcon9" -> 6
                         [] rocket = "falconHeavy" -> 7
                         [] rocket = "starship" -> 8
                         [] rocket = "smallRocket" -> 4
            tooBright == RLess(SubScore.sun, Rat(2, 10))
        IN  /\ (w.start = None /\ w.end = None /\ w.duration = 0) <=> tooBright
            /\ (w.start = None) <=> (w.end = None)
            /\ ~tooBright =>
                   /\ w.start = Some(launch + toAltitude)
                   /\ w.end = Some(launch + toAltitude + minutes * 60 * 1000)
                   /\ w.duration = minutes
                   /\ launch < ValueOf(w.start)
                   /\ ValueOf(w.start) < ValueOf(w.end)

C17_Witness ==
    /\ Returned
    /\ Raw.rocketType = "smallRocket"
    /\ SubScore.sun = Rat(30, 100)
    /\ result.optimalWindow.start = Some(Arg.launchTimeUnix * 1000 + 120000)
    /\ result.optimalWindow.end = Some(Arg.launchTimeUnix * 1000 + 360000)

(***************************************************************************)
(* C18.  The confidence interval is the percentage plus and minus 10       *)
(* points, or 15 points exactly for the sites whose typical cloud cover is *)
(* above 0.35 (Cape Canaveral only), clamped to [0, 100]; so               *)
(* low <= percentage <= high.                                              *)
(***************************************************************************)
C18_ConfidenceBand ==
    Returned =>
        LET site == LAUNCH_SITES[SiteIdOrDefault(Arg.siteId)]
            cloudy == RLess(Rat(35, 100), site.visibilityModifiers.typicalCloudCover)
            band == IF cloudy THEN 15 ELSE 10
            p == result.percentage
        IN  /\ cloudy <=> site.id = "cape-canaveral"
            /\ result.confidence.low = (IF p - band > 0 THEN p - band ELSE 0)
            /\ result.confidence.high = (IF p + band < 100 THEN p + band ELSE 100)
            /\ result.confidence.low <= p
            /\ p <= result.confidence.high

C18_Witness ==
    /\ Returned
    /\ Arg.siteId = Some("cape-canaveral")
    /\ result.percentage > 85
    /\ result.percentage < 100
    /\ result.confidence.low = result.percentage - 15
    /\ result.confidence.high = 100

(***************************************************************************)
(* C19.  Without a fatal blocker the recommendations are never empty and   *)
(* end with the trust sentence of the lighting condition and rocket type;  *)
(* where no other recommendation was generated, the generic fallback is in *)
(* the list.                                                               *)
(***************************************************************************)
C19_TrustSentenceLast ==
    (Returned /\ ~Blocked) =>
        LET recs == result.recommendations
            lighting == LightingCondition(Raw.solarElevation)
            isFallback(r) == r[1] = "Conditions look reasonable."
            others == 1..(Len(recs) - 1)
        IN  /\ Len(recs) >= 1
            /\ recs[Len(recs)] =
                   getScoreExplanation(Raw.distanceKm, lighting, Raw.rocketType)
            /\ (\A i \in others : isFallback(recs[i])) =>
                   (\E i \in others : isFallback(recs[i]))

C19_Witness ==
    /\ Returned
    /\ ~Blocked
    /\ Raw.rocketType = "starship"
    /\ Len(result.recommendations) >= 4
    /\ result.recommendations[Len(result.recommendations)] =
           <<"This score is based on twilight timing - scaled for Starship">>

(***************************************************************************)
(* C20.  The cloud calculator is fatal, with score 0, exactly when the     *)
(* fraction is above 80 % and the cloud base is known and below 40 000 m;  *)
(* otherwise with a known base below 3000 m and a fraction above 60 % the  *)
(* score is 0.2 x (1 - fraction); otherwise it is 1 - fraction, with a     *)
(* cautionary reason exactly when the fraction is above 50 %.  An unknown  *)
(* cloud base is never fatal.                                              *)
(***************************************************************************)
C20_CloudScoreCases ==
    (result.kind = "cloud") =>
        LET f == Arg.cloudFraction
            base == Arg.cloudBase
            r == result.value
            opaque == f > 80 /\ base # None /\ ValueOf(base) < 40000
            lowDeck == ~opaque /\ base # None /\ ValueOf(base) < 3000 /\ f > 60
        IN  /\ r.isFatal <=> opaque
            /\ opaque => r.score = Zero
            /\ lowDeck => r.score = Rat(2 * (100 - f), 1000)
            /\ (~opaque /\ ~lowDeck) =>
                   (r.score = Rat(100 - f, 100) /\ (r.reason # None <=> f > 50))
            /\ (base = None) => ~r.isFatal

C20_Witness ==
    /\ result.kind = "cloud"
    /\ Arg.cloudFraction = MaxCloudFraction
    /\ Arg.cloudBase = None
    /\ ~result.value.isFatal
    /\ result.value.score = Zero

C22_HelpersAgree ==
    result.kind = "radius" =>
        LET e == Arg.solarElevation
            engineType == calculateBrightnessScore(Arg.missionName).rocketType
        IN  /\ result.condition = LightingCondition(e)
            /\ (result.condition = "twilight") = (-18 <= e /\ e <= 0)
            /\ (result.condition = "night") = (e < -18)
            /\ (result.condition = "day") = (e > 0)
            /\ result.rocketType = engineType
            /\ result.radiusKm = MaxVisibleDistance(LightingCondition(e), engineType)

\* a name with the keywords of two rockets, the sun exactly on the horizon
C22_Witness ==
    /\ result.kind = "radius"
    /\ Arg.solarElevation = 0
    /\ Arg.missionName = {"fh", "starship", "starlink"}
    /\ result.rocketType = "falconHeavy"
    /\ result.radiusKm = 1200

(***************************************************************************)
(* C27.  Whenever a result has no fatal blocker and its rating is "good"   *)
(* or "excellent", its optimal viewing window is not empty: both           *)
(* optimalWindow.start and optimalWindow.end are set.                      *)
(***************************************************************************)
C27_GoodRatingHasWindow ==
    (Returned /\ ~Blocked /\ result.rating \in {"good", "excellent"}) =>
        /\ result.optimalWindow.start # None
        /\ result.optimalWindow.end # None

(***************************************************************************)
(* C28.  In every result without a fatal blocker no two entries of         *)
(* limitingFactors carry the same factor name; in particular 'cloud' is    *)
(* listed at most once.                                                    *)
(***************************************************************************)
C28_NoDuplicateFactor ==
    (Returned /\ ~Blocked) =>
        \A i, j \in DOMAIN result.limitingFactors :
            result.limitingFactors[i].factor = result.limitingFactors[j].factor
                => i = j

(***************************************************************************)
(* C29.  When no viewing location is supplied (the viewer stands on the    *)
(* launch site, 0 km away) and there is no fatal blocker, 'distance' is    *)
(* not among the limiting factors and the distance sub-score is not 0.     *)
(***************************************************************************)
C29_DefaultViewerDistance ==
    (Returned /\ ~Blocked /\ Arg.viewingLocation = None) =>
        /\ \A i \in DOMAIN result.limitingFactors :
               result.limitingFactors[i].factor # "distance"
        /\ SubScore.distance # Zero

(***************************************************************************)
(* C26.  The result of calculateVisibility does not depend on the          *)
(* launch-site weather snapshot: a call given a snapshot returns what the  *)
(* call with null in its place returns, so any two calls that differ only  *)
(* in the weatherLaunchSite argument return identical results.             *)
(***************************************************************************)
C26_LaunchSiteWeatherIgnored ==
    (Returned /\ Arg.weatherLaunchSite # None) =>
        result = calculateVisibility([Arg EXCEPT !.weatherLaunchSite = None])

\* a call with an overcast launch-site snapshot and no viewer snapshot, which
\* is scored on the defaults (50 % cloud) and not on the launch-site values
C26_Witness ==
    /\ Returned
    /\ Arg.weatherLaunchSite # None
    /\ ValueOf(Arg.weatherLaunchSite).clouds = Some(95)
    /\ Arg.weatherViewing = None
    /\ Raw.cloudFraction = 50
    /\ ~Blocked

(***************************************************************************)
(* C23.  Sliding-window rate limit, all calls made with the same limit     *)
(* and windowMs.  For each key (client IP and path):                       *)
(*   - no more than `limit` requests were answered "allowed" within any    *)
(*     time span shorter than windowMs;                                    *)
(*   - a request is rejected (429) exactly when `limit` allowed requests   *)
(*     of its key are younger than windowMs;                               *)
(*   - a rejected request is not recorded;                                 *)
(*   - a request of one key leaves the timestamps that count for another   *)
(*     key as they were, so it never affects the other key's decision.     *)
(***************************************************************************)
\* the allowed requests of the key before the one just answered
C23_Earlier ==
    LET log == allowedAt[result.key]
    IN  IF result.allowed THEN SubSeq(log, 1, Len(log) - 1) ELSE log

C23_Younger ==
    Cardinality({i \in DOMAIN C23_Earlier : result.at - C23_Earlier[i] < WindowMs})

C23_Counted(w, key) ==
    IF key \in DOMAIN w THEN ValidTimestamps(w[key], now, WindowMs) ELSE <<>>

C24_GetNeverRemoves ==
    /\ [][(result'.kind = "http" /\ result'.route = "unsubscribe"
             /\ result'.method = "GET")
            => email_subscriptions' = email_subscriptions]_vars
    /\ [][\A row \in email_subscriptions \ email_subscriptions' :
            /\ result'.kind = "http"
            /\ result'.route = "unsubscribe"
            /\ result'.method \in {"POST", "DELETE"}
            /\ result'.token = Some(row.unsubscribe_token)]_vars

(***************************************************************************)
(* C25.  The alert cron never sends duplicate emails: a subscription that  *)
(* was sent an alert less than 20 hours ago is sent no further alert, so   *)
(* within one run and across runs less than 20 hours apart each            *)
(* subscription receives at most one email.                                *)
(***************************************************************************)
C25_NoDuplicateEmails ==
    \A i, j \in DOMAIN outbox :
        (i < j /\ outbox[i].to = outbox[j].to) =>
            outbox[j].at - outbox[i].at >= 20 * HourMs

(***************************************************************************)
(* C30.  In the GET visibility endpoint the viewer weather snapshot passed *)
(* to calculateVisibility describes the location the engine scores as the  *)
(* viewer: the custom coordinates when lat/lon are given, otherwise the    *)
(* engine's default viewer, the launch site - in the current-weather       *)
(* branch and in the forecast branch.                                      *)
(***************************************************************************)
C30_ViewerWeatherMatchesViewer ==
    (/\ result.kind = "http"
     /\ result.route = "visibility"
     /\ result.status = 200
     /\ result.body.weather.viewing # None) =>
        ValueOf(result.body.weather.viewing).location
            = result.body.visibility.viewingLocation.name

====
